---- MODULE Spec2Model ----
(***************************************************************************)
(* The recurring-visit date generator of one-rehab                         *)
(* (utils/visitScheduler, generateVisitDates).                             *)
(*                                                                         *)
(* One call of generateVisitDates is a behaviour: Init is the state right  *)
(* after the locals are initialised (lines 15-22), every iteration of the  *)
(* period loop (or its break followed by the sort/map/filter of lines      *)
(* 115-118) is one step.                                                   *)
(*                                                                         *)
(* Representation.  A Date object is its instant, counted in minutes since *)
(* 1970-01-01T00:00 of the host's calendar (the host runs at UTC offset 0, *)
(* no daylight saving).  A date string "YYYY-MM-DD" is the tuple           *)
(* <<y, m, d>>, a time string "HH:mm" the tuple <<h, m>>, an ISO string    *)
(* "YYYY-MM-DDTHH:mm:00.000Z" the tuple <<y, m, d, h, mi>>.  An optional   *)
(* value (undefined / null in the source) is the empty tuple, a present    *)
(* value x is <<x>>.                                                       *)
(***************************************************************************)
EXTENDS Integers, Sequences, FiniteSets, TLC

VARIABLES
    frequency,    \* argument: "daily" | "weekly" | "monthly"
    visitsPerPeriod, \* argument: a number (never read by the generator)
    startDate,    \* argument: <<y, m, d>>
    timeSlots,    \* argument: sequence of TimeSlot records
    endDate,      \* argument: None or Some(<<y, m, d>>)
    occurrences,  \* argument: None or Some(n)
    periodCount,  \* local, line 22
    dayCount,     \* local of the daily branch, line 26
    weekOffset,   \* local of the weekly branch, line 48
    monthOffset,  \* local of the monthly branch, line 81
    dates,        \* local, line 17: the Date objects pushed so far
    result,       \* the returned array of ISO strings
    pc,           \* "request" before a caller has validated, "loop" while
                  \* in the period loop, "return" at line 115, "done" after
                  \* the return, "handled" when the caller has finished
    previous,     \* None, or Some of the arguments and result of the call
                  \* made before this one
    relation,     \* how this call's arguments were derived from previous
    caller,       \* "none" (a direct call), "api" or "form"
    patientId,    \* the caller's patient id: None or Some(id)
    apiResponse,  \* None, or Some([status, ...]) sent by the POST handler
    errors,       \* the add-visit form's errors state: a set of keys
    visitsStore,  \* localStorage 'one-rehab-visits': a sequence of visits
    patientsStore, \* localStorage 'one-rehab-patients': a sequence
    legacyPc,     \* the older generator: "idle", "loop", "return", "done"
    legacyPeriodCount, \* the older generator's periodCount, line 142
    legacyOffset, \* its dayCount / weekOffset / monthOffset
    legacyDates,  \* its dates array, line 134
    legacyResult, \* its returned array of ISO strings
    selectedPatients, \* visit manager state: a set of patient ids
    selectedVisits,   \* visit manager state: a set of visit ids
    selectedDate,     \* visit manager state: the day shown
    invoicesCache,  \* the ['invoices'] query data the invoices page shows
    invoicesStore,  \* localStorage invoices: a sequence of invoices
    visits,       \* useVisits state: the hook's visits list
    mounted,      \* whether the hook's effect has run
    pendingEvents, \* storage events dispatched to this tab, not yet handled
    lastCall      \* None, or Some of the last hook operation's outcome

\* the state of a second call compared with a first
repeatVars == <<previous, relation>>

\* the state of the callers of the generator
callerVars == <<caller, patientId, apiResponse, errors, visitsStore,
                patientsStore>>

\* the state of the older generateVisitDates
legacyVars == <<legacyPc, legacyPeriodCount, legacyOffset, legacyDates,
                legacyResult>>

\* the state of the visit manager page
pageVars == <<selectedPatients, selectedVisits, selectedDate>>

\* the state of the invoices page
invoiceVars == <<invoicesCache, invoicesStore>>

\* the state of one useVisits instance
hookVars == <<visits, mounted, pendingEvents, lastCall>>

\* the state of everything that is not the slot-based generator, a second
\* call of it or one of its callers
otherVars == <<legacyVars, pageVars, invoiceVars, hookVars>>

vars == <<frequency, visitsPerPeriod, startDate, timeSlots, endDate,
          occurrences, periodCount, dayCount, weekOffset, monthOffset, dates,
          result, pc, previous, relation, caller, patientId, apiResponse,
          errors, visitsStore, patientsStore, legacyPc, legacyPeriodCount,
          legacyOffset, legacyDates, legacyResult, selectedPatients,
          selectedVisits, selectedDate, invoicesCache, invoicesStore, visits,
          mounted, pendingEvents, lastCall>>

None == <<>>
Some(x) == <<x>>

\* the older generator has not been called
LegacyIdle ==
    /\ legacyPc = "idle"
    /\ legacyPeriodCount = 0
    /\ legacyOffset = 0
    /\ legacyDates = <<>>
    /\ legacyResult = <<>>

\* visits/index.tsx lines 21-25: the visit manager's initial state, with
\* the day shown numbered 0
PageIdle ==
    /\ selectedPatients = {}
    /\ selectedVisits = {}
    /\ selectedDate = 0

\* no invoice has been created
InvoicesIdle ==
    /\ invoicesCache = <<>>
    /\ invoicesStore = <<>>

\* useVisits.ts lines 6-7: the hook's state before its effect has run
HookIdle ==
    /\ visits = <<>>
    /\ mounted = FALSE
    /\ pendingEvents = 0
    /\ lastCall = None

---------------------------------------------------------------------------
(* Bounds of the model *)

\* occurrences ranges over 0..MaxOccurrences (and absent)
MaxOccurrences == 2
\* endDate ranges over startDate-1 .. startDate+MaxEndSpan days (and absent)
MaxEndSpan == 15
\* one more endDate, this many days after startDate (beyond the safety cap)
FarEndSpan == 101
\* the period loop of the model is not followed beyond this many periods
PeriodBound == 105

\* the default of maxPeriods, line 21
SafetyCap == 100

---------------------------------------------------------------------------
(* The calendar: JavaScript's Date and date-fns, on instants in minutes *)

MinutesPerDay == 24 * 60

\* day number (days since 1970-01-01) of the proleptic Gregorian date y-m-d
DaysFromCivil(y, m, d) ==
    LET yy  == IF m <= 2 THEN y - 1 ELSE y
        era == yy \div 400
        yoe == yy - era * 400
        mp  == IF m > 2 THEN m - 3 ELSE m + 9
        doy == (153 * mp + 2) \div 5 + d - 1
        doe == yoe * 365 + yoe \div 4 - yoe \div 100 + doy
    IN  era * 146097 + doe - 719468

\* <<y, m, d>> of a day number
CivilFromDays(z0) ==
    LET z   == z0 + 719468
        era == z \div 146097
        doe == z - era * 146097
        yoe == (doe - doe \div 1460 + doe \div 36524 - doe \div 146096) \div 365
        doy == doe - (365 * yoe + yoe \div 4 - yoe \div 100)
        mp  == (5 * doy + 2) \div 153
        d   == doy - (153 * mp + 2) \div 5 + 1
        m   == IF mp < 10 THEN mp + 3 ELSE mp - 9
        y   == yoe + era * 400 + (IF m <= 2 THEN 1 ELSE 0)
    IN  <<y, m, d>>

DayOf(date) == date \div MinutesPerDay
getFullYear(date) == CivilFromDays(DayOf(date))[1]
\* 0-based month index, as Date.prototype.getMonth
getMonth(date) == CivilFromDays(DayOf(date))[2] - 1
getDate(date) == CivilFromDays(DayOf(date))[3]
\* 0 = Sunday .. 6 = Saturday; 1970-01-01 was a Thursday
getDay(date) == (DayOf(date) + 4) % 7

\* new Date(year, monthIndex, day): midnight; monthIndex and day may overflow
NewDate(year, monthIndex, day) ==
    (DaysFromCivil(year + (monthIndex \div 12), (monthIndex % 12) + 1, 1) + day - 1)
        * MinutesPerDay

\* date-fns parseISO of a date-only string: midnight of that day
parseISO(s) == DaysFromCivil(s[1], s[2], s[3]) * MinutesPerDay

addDays(date, n) == date + n * MinutesPerDay
addWeeks(date, n) == addDays(date, 7 * n)

\* date-fns addMonths: the same day of the target month, clamped to its last day
addMonths(date, n) ==
    LET dayOfMonth == getDate(date)
        endOfDesiredMonth ==
            NewDate(getFullYear(date), getMonth(date) + n + 1, 0)
                + (date % MinutesPerDay)
        daysInMonth == getDate(endOfDesiredMonth)
    IN  IF dayOfMonth >= daysInMonth
        THEN endOfDesiredMonth
        ELSE NewDate(getFullYear(endOfDesiredMonth), getMonth(endOfDesiredMonth),
                     dayOfMonth) + (date % MinutesPerDay)

\* mutant of startOfWeek: the week taken to start on the date itself
startOfWeek_Identity(date) == DayOf(date) * MinutesPerDay

\* mutant of startOfWeek: weeks taken to start on Monday (weekStartsOn: 1)
startOfWeek_Monday(date) ==
    (DayOf(date) - ((getDay(date) + 6) % 7)) * MinutesPerDay

\* date-fns startOfWeek(date, { weekStartsOn: 0 }): midnight of the Sunday
startOfWeek(date) == (DayOf(date) - getDay(date)) * MinutesPerDay

isAfter(a, b) == a > b
isBefore(a, b) == a < b

\* Date.prototype.setHours(hours, minutes, 0, 0)
setHours(date, hours, minutes) ==
    DayOf(date) * MinutesPerDay + hours * 60 + minutes

\* Date.prototype.toISOString
toISOString(date) ==
    LET c == CivilFromDays(DayOf(date))
        t == date % MinutesPerDay
    IN  <<c[1], c[2], c[3], t \div 60, t % 60>>

\* timeSlot.time.split(':').map(Number)
ParseTime(time) == <<time[1], time[2]>>

---------------------------------------------------------------------------
(* The inputs of the model *)

Frequencies == {"daily", "weekly", "monthly"}

\* Mon 2024-01-01, Wed 2024-01-10, Wed 2024-01-31 (a month's last day),
\* Sat 2023-12-30 (a week's last day, next to a year's end)
StartDates == { <<2024, 1, 1>>, <<2024, 1, 10>>, <<2024, 1, 31>>, <<2023, 12, 30>> }

SlotTimes == { <<9, 0>>, <<12, 0>> }
DaysOfWeek == { 0, 3 }
DaysOfMonth == { 15, 30, 31 }

TimeSlot(t, dow, dom) == [time |-> t, dayOfWeek |-> dow, dayOfMonth |-> dom]

\* the slots a caller may pass for a frequency; a weekly (monthly) slot may
\* lack its dayOfWeek (dayOfMonth)
SlotsFor(f) ==
    IF f = "daily" THEN { TimeSlot(t, None, None) : t \in SlotTimes }
    ELSE IF f = "weekly"
    THEN { TimeSlot(<<9, 0>>, None, None) }
         \cup { TimeSlot(t, Some(w), None) : t \in SlotTimes, w \in DaysOfWeek }
    ELSE { TimeSlot(<<9, 0>>, None, None) }
         \cup { TimeSlot(t, None, Some(d)) : t \in SlotTimes, d \in DaysOfMonth }

SlotLists(f) ==
    { <<>> } \cup { <<a>> : a \in SlotsFor(f) }
             \cup { <<a, b>> : a \in SlotsFor(f), b \in SlotsFor(f) }

EndSpans == (-1 .. MaxEndSpan) \cup { FarEndSpan }

EndDates(s) ==
    { None } \cup { Some(CivilFromDays(DayOf(parseISO(s)) + n)) : n \in EndSpans }

OccurrenceValues == { None } \cup { Some(n) : n \in 0 .. MaxOccurrences }

\* types/index.ts lines 5-11: a Patient record (name and status left out)
Patient(id, service, lastVisit) ==
    [id |-> id, service |-> service, lastVisit |-> lastVisit]

\* the patients in storage before the add-visit form is used
ExistingPatients == << Patient("p1", "Physical Therapy", None) >>

---------------------------------------------------------------------------
(* generateVisitDates *)

\* line 15
start == parseISO(startDate)
\* mutant of end: endDate never parsed
end_Ignored == None

\* line 16: endDate ? parseISO(endDate) : null
end == IF endDate # None THEN Some(parseISO(endDate[1])) ELSE None

\* mutant of maxPeriods: the default cap left out (occurrences || null)
maxPeriods_NoDefault ==
    IF occurrences # None /\ occurrences[1] # 0 THEN occurrences ELSE None

\* mutant of maxPeriods: endDate takes precedence over occurrences
\* (end ? null : occurrences || 100)
maxPeriods_EndWins ==
    IF end # None THEN None
    ELSE IF occurrences # None /\ occurrences[1] # 0 THEN occurrences
    ELSE Some(SafetyCap)

\* mutant of maxPeriods: an occurrences of 0 kept as a bound of 0 periods
\* (occurrences ?? ...)
maxPeriods_ZeroKept ==
    IF occurrences # None THEN occurrences
    ELSE IF end # None THEN None ELSE Some(SafetyCap)

\* line 21: occurrences || (end ? null : 100)
maxPeriods ==
    IF occurrences # None /\ occurrences[1] # 0 THEN occurrences
    ELSE IF end # None THEN None ELSE Some(SafetyCap)

\* mutant of MaxPeriodsReached: occurrences counted in visits, not periods
MaxPeriodsReached_CountsVisits ==
    maxPeriods # None /\ Len(dates) >= maxPeriods[1]

\* mutant of MaxPeriodsReached: periodCount > maxPeriods
MaxPeriodsReached_OffByOne ==
    maxPeriods # None /\ periodCount > maxPeriods[1]

\* lines 33, 53, 88: maxPeriods && periodCount >= maxPeriods
MaxPeriodsReached == maxPeriods # None /\ periodCount >= maxPeriods[1]

\* mutant of DailyBreak: endDate taken as exclusive
DailyBreak_EndExclusive(baseDate) ==
    \/ end # None /\ ~isBefore(baseDate, end[1])
    \/ MaxPeriodsReached

\* mutant of DailyBreak: the endDate test left out
DailyBreak_NoEndTest(baseDate) == MaxPeriodsReached

\* lines 32-33
DailyBreak(baseDate) ==
    \/ end # None /\ isAfter(baseDate, end[1])
    \/ MaxPeriodsReached

\* lines 36-41: the slot loop of one day
\* mutant of DailySlots: a slot carrying a dayOfWeek is emitted only on
\* that weekday
RECURSIVE DailySlots_ConsultsDayOfWeek(_, _, _)
DailySlots_ConsultsDayOfWeek(baseDate, i, acc) ==
    IF i > Len(timeSlots) THEN acc
    ELSE LET hm == ParseTime(timeSlots[i].time)
             visitDate == setHours(baseDate, hm[1], hm[2])
         IN  IF /\ timeSlots[i].dayOfWeek # None
                /\ timeSlots[i].dayOfWeek[1] # getDay(baseDate)
             THEN DailySlots_ConsultsDayOfWeek(baseDate, i + 1, acc)
             ELSE DailySlots_ConsultsDayOfWeek(baseDate, i + 1,
                                               Append(acc, visitDate))

RECURSIVE DailySlots(_, _, _)
DailySlots(baseDate, i, acc) ==
    IF i > Len(timeSlots) THEN acc
    ELSE LET hm == ParseTime(timeSlots[i].time)
             visitDate == setHours(baseDate, hm[1], hm[2])
         IN  DailySlots(baseDate, i + 1, Append(acc, visitDate))

\* lines 28-45: one pass of the daily while loop
DailyStep ==
    /\ pc = "loop"
    /\ frequency = "daily"
    /\ LET baseDate == addDays(start, dayCount)
       IN  IF DailyBreak(baseDate)
           THEN /\ pc' = "return"
                /\ UNCHANGED <<dates, periodCount, dayCount>>
           ELSE /\ periodCount < PeriodBound
                /\ dates' = DailySlots(baseDate, 1, dates)
                /\ periodCount' = periodCount + 1
                /\ dayCount' = dayCount + 1
                /\ pc' = "loop"
    /\ UNCHANGED <<visitsPerPeriod, repeatVars, otherVars, callerVars>>
    /\ UNCHANGED <<frequency, startDate, timeSlots, endDate, occurrences,
                   weekOffset, monthOffset, result>>

\* mutant of WeeklyBreak: the loop left only when the week's own start is
\* after end, so that the test of line 68 decides inside the week
WeeklyBreak_StartOfPeriod ==
    \/ end # None /\ isAfter(addWeeks(start, weekOffset), end[1])
    \/ MaxPeriodsReached

\* lines 52-53
WeeklyBreak ==
    \/ end # None /\ isAfter(addWeeks(start, weekOffset + 1), end[1])
    \/ MaxPeriodsReached

\* mutant of WeeklySkip: dates before startDate kept
WeeklySkip_Never(visitDate) == FALSE

\* line 67
WeeklySkip(visitDate) == weekOffset = 0 /\ isBefore(visitDate, start)

\* mutant of WeeklySlots: a missing dayOfWeek read as 0 (dayOfWeek || 0)
RECURSIVE WeeklySlots_MissingAsSunday(_, _, _)
WeeklySlots_MissingAsSunday(weekStart, i, acc) ==
    IF i > Len(timeSlots) THEN acc
    ELSE LET timeSlot == timeSlots[i]
             dayOfWeek == IF timeSlot.dayOfWeek = None THEN 0
                          ELSE timeSlot.dayOfWeek[1]
             visitDate == addDays(weekStart, dayOfWeek)
             hm == ParseTime(timeSlot.time)
         IN  IF WeeklySkip(visitDate)
             THEN WeeklySlots_MissingAsSunday(weekStart, i + 1, acc)
             ELSE IF end # None /\ isAfter(visitDate, end[1])
             THEN acc
             ELSE WeeklySlots_MissingAsSunday(weekStart, i + 1,
                      Append(acc, setHours(visitDate, hm[1], hm[2])))

\* lines 60-74: the slot loop of one week
RECURSIVE WeeklySlots(_, _, _)
WeeklySlots(weekStart, i, acc) ==
    IF i > Len(timeSlots) THEN acc
    ELSE LET timeSlot == timeSlots[i]
         IN  IF timeSlot.dayOfWeek = None
             THEN WeeklySlots(weekStart, i + 1, acc)
             ELSE LET visitDate == addDays(weekStart, timeSlot.dayOfWeek[1])
                      hm == ParseTime(timeSlot.time)
                  IN  IF WeeklySkip(visitDate)
                      THEN WeeklySlots(weekStart, i + 1, acc)
                      ELSE IF end # None /\ isAfter(visitDate, end[1])
                      THEN acc
                      ELSE WeeklySlots(weekStart, i + 1,
                               Append(acc, setHours(visitDate, hm[1], hm[2])))

\* lines 50-78: one pass of the weekly while loop
WeeklyStep ==
    /\ pc = "loop"
    /\ frequency = "weekly"
    /\ IF WeeklyBreak
       THEN /\ pc' = "return"
            /\ UNCHANGED <<dates, periodCount, weekOffset>>
       ELSE LET weekStartDate == IF weekOffset = 0 THEN start
                                 ELSE addWeeks(start, weekOffset)
                weekStart == startOfWeek(weekStartDate)
            IN  /\ periodCount < PeriodBound
                /\ dates' = WeeklySlots(weekStart, 1, dates)
                /\ periodCount' = periodCount + 1
                /\ weekOffset' = weekOffset + 1
                /\ pc' = "loop"
    /\ UNCHANGED <<visitsPerPeriod, repeatVars, otherVars, callerVars>>
    /\ UNCHANGED <<frequency, startDate, timeSlots, endDate, occurrences,
                   dayCount, monthOffset, result>>

\* lines 87-88
MonthlyBreak ==
    \/ end # None /\ isAfter(addMonths(start, monthOffset + 1), end[1])
    \/ MaxPeriodsReached

\* mutant of ClampDayOfMonth: no clamping, the day rolls into the next month
ClampDayOfMonth_NoClamp(dayOfMonth, daysInMonth) == dayOfMonth

\* line 97: Math.min(timeSlot.dayOfMonth, daysInMonth)
ClampDayOfMonth(dayOfMonth, daysInMonth) ==
    IF dayOfMonth < daysInMonth THEN dayOfMonth ELSE daysInMonth

\* mutant of MonthlySlots: the slot loop left at the first slot without
\* dayOfMonth (break for continue, line 94)
RECURSIVE MonthlySlots_StopAtMissing(_, _, _)
MonthlySlots_StopAtMissing(currentMonthStart, i, acc) ==
    IF i > Len(timeSlots) THEN acc
    ELSE LET timeSlot == timeSlots[i]
             daysInMonth == getDate(NewDate(getFullYear(currentMonthStart),
                                            getMonth(currentMonthStart) + 1, 0))
         IN  IF timeSlot.dayOfMonth = None
             THEN acc
             ELSE LET dayOfMonth == ClampDayOfMonth(timeSlot.dayOfMonth[1], daysInMonth)
                      visitDate == NewDate(getFullYear(currentMonthStart),
                                           getMonth(currentMonthStart), dayOfMonth)
                      hm == ParseTime(timeSlot.time)
                  IN  IF isBefore(visitDate, start)
                      THEN MonthlySlots_StopAtMissing(currentMonthStart, i + 1, acc)
                      ELSE IF end # None /\ isAfter(visitDate, end[1])
                      THEN acc
                      ELSE MonthlySlots_StopAtMissing(currentMonthStart, i + 1,
                               Append(acc, setHours(visitDate, hm[1], hm[2])))

\* lines 93-107: the slot loop of one month
RECURSIVE MonthlySlots(_, _, _)
MonthlySlots(currentMonthStart, i, acc) ==
    IF i > Len(timeSlots) THEN acc
    ELSE LET timeSlot == timeSlots[i]
             daysInMonth == getDate(NewDate(getFullYear(currentMonthStart),
                                            getMonth(currentMonthStart) + 1, 0))
         IN  IF timeSlot.dayOfMonth = None
             THEN MonthlySlots(currentMonthStart, i + 1, acc)
             ELSE LET dayOfMonth == ClampDayOfMonth(timeSlot.dayOfMonth[1], daysInMonth)
                      visitDate == NewDate(getFullYear(currentMonthStart),
                                           getMonth(currentMonthStart), dayOfMonth)
                      hm == ParseTime(timeSlot.time)
                  IN  IF isBefore(visitDate, start)
                      THEN MonthlySlots(currentMonthStart, i + 1, acc)
                      ELSE IF end # None /\ isAfter(visitDate, end[1])
                      THEN acc
                      ELSE MonthlySlots(currentMonthStart, i + 1,
                               Append(acc, setHours(visitDate, hm[1], hm[2])))

\* lines 83-111: one pass of the monthly while loop
MonthlyStep ==
    /\ pc = "loop"
    /\ frequency = "monthly"
    /\ IF MonthlyBreak
       THEN /\ pc' = "return"
            /\ UNCHANGED <<dates, periodCount, monthOffset>>
       ELSE LET currentMonthStart == addMonths(start, monthOffset)
            IN  /\ periodCount < PeriodBound
                /\ dates' = MonthlySlots(currentMonthStart, 1, dates)
                /\ periodCount' = periodCount + 1
                /\ monthOffset' = monthOffset + 1
                /\ pc' = "loop"
    /\ UNCHANGED <<visitsPerPeriod, repeatVars, otherVars, callerVars>>
    /\ UNCHANGED <<frequency, startDate, timeSlots, endDate, occurrences,
                   dayCount, weekOffset, result>>

\* line 116: merge two ascending arrays, the elements of a before their
\* equals in b
RECURSIVE Merge(_, _)
Merge(a, b) ==
    IF a = <<>> THEN b
    ELSE IF b = <<>> THEN a
    ELSE LET m == (Len(a) + 1) \div 2
             p == Cardinality({ j \in 1 .. Len(b) : b[j] < a[m] })
         IN  Merge(SubSeq(a, 1, m - 1), SubSeq(b, 1, p))
                 \o << a[m] >>
                 \o Merge(SubSeq(a, m + 1, Len(a)), SubSeq(b, p + 1, Len(b)))

\* mutant of Sort: the array left in push order
Sort_None(s) == s

\* line 116: dates.sort((a, b) => a.getTime() - b.getTime()), a stable
\* merge sort
RECURSIVE Sort(_)
Sort(s) ==
    IF Len(s) <= 1 THEN s
    ELSE LET m == Len(s) \div 2
         IN  Merge(Sort(SubSeq(s, 1, m)), Sort(SubSeq(s, m + 1, Len(s))))

\* line 117
MapToISOString(s) == [i \in 1 .. Len(s) |-> toISOString(s[i])]

\* Array.prototype.indexOf: the first index holding x
IndexOf(self, x) == CHOOSE i \in 1 .. Len(self) :
                        self[i] = x /\ \A j \in 1 .. (i - 1) : self[j] # x

\* mutant of FilterFirst: every element kept
FilterFirst_KeepAll(self) == self

\* line 118: .filter((date, index, self) => self.indexOf(date) === index)
FilterFirst(self) ==
    LET indexed == [index \in 1 .. Len(self) |-> <<self[index], index>>]
        kept == SelectSeq(indexed, LAMBDA e : IndexOf(self, e[1]) = e[2])
    IN  [i \in 1 .. Len(kept) |-> kept[i][1]]

\* lines 115-118
SortedUnique(ds) == FilterFirst(MapToISOString(Sort(ds)))

Return ==
    /\ pc = "return"
    /\ result' = SortedUnique(dates)
    /\ pc' = "done"
    /\ UNCHANGED <<visitsPerPeriod, repeatVars, otherVars, callerVars>>
    /\ UNCHANGED <<frequency, startDate, timeSlots, endDate, occurrences,
                   periodCount, dayCount, weekOffset, monthOffset, dates>>

Init ==
    /\ frequency \in Frequencies
    /\ startDate \in StartDates
    /\ timeSlots \in SlotLists(frequency)
    /\ endDate \in EndDates(startDate)
    /\ occurrences \in OccurrenceValues
    /\ periodCount = 0
    /\ dayCount = 0
    /\ weekOffset = 0
    /\ monthOffset = 0
    /\ dates = <<>>
    /\ result = <<>>
    /\ pc = "loop"
    /\ visitsPerPeriod = Len(timeSlots)
    /\ previous = None
    /\ relation = "none"
    /\ caller = "none"
    /\ patientId = None
    /\ apiResponse = None
    /\ errors = {}
    /\ visitsStore = <<>>
    /\ patientsStore = ExistingPatients
    /\ LegacyIdle
    /\ PageIdle
    /\ InvoicesIdle
    /\ HookIdle

Next == DailyStep \/ WeeklyStep \/ MonthlyStep \/ Return

Spec == Init /\ [][Next]_vars

---------------------------------------------------------------------------
(* A second call of generateVisitDates, made after the first has returned,
   with a slot list derived from the first call's. Every call starts from
   fresh locals (lines 15-22). *)

\* the arguments and the result of the call that has just returned
ThisCall ==
    [timeSlots |-> timeSlots, visitsPerPeriod |-> visitsPerPeriod,
     occurrences |-> occurrences, result |-> result]

\* lines 61 and 94: the slots that carry the field the frequency reads
WithRelevantField(slots) ==
    SelectSeq(slots, LAMBDA timeSlot :
        \/ frequency = "daily"
        \/ frequency = "weekly" /\ timeSlot.dayOfWeek # None
        \/ frequency = "monthly" /\ timeSlot.dayOfMonth # None)

\* the slot list in the opposite order
Reverse(slots) == [i \in 1 .. Len(slots) |-> slots[Len(slots) + 1 - i]]

\* the slot list with the same times and the given day fields
WithDayFields(slots, dow, dom) ==
    [i \in 1 .. Len(slots) |-> TimeSlot(slots[i].time, dow, dom)]

\* the day fields given to daily slots by the second call
DayFieldValues == { <<Some(0), None>>, <<Some(3), Some(31)>> }

\* the visitsPerPeriod values of the second call
VisitsPerPeriodValues == { 0, 3 }

\* lines 7-22: generateVisitDates entered again with new arguments
CallAgain(slots, vpp, occ, rel) ==
    /\ pc = "done"
    /\ caller = "none"
    /\ previous = None
    /\ previous' = Some(ThisCall)
    /\ relation' = rel
    /\ timeSlots' = slots
    /\ visitsPerPeriod' = vpp
    /\ occurrences' = occ
    /\ periodCount' = 0
    /\ dayCount' = 0
    /\ weekOffset' = 0
    /\ monthOffset' = 0
    /\ dates' = <<>>
    /\ result' = <<>>
    /\ pc' = "loop"
    /\ UNCHANGED <<frequency, startDate, endDate, otherVars, callerVars>>

\* lines 7-22: generateVisitDates entered again with new slots
CallWith(slots, vpp, rel) == CallAgain(slots, vpp, occurrences, rel)

\* the same call without the slots that lack the relevant field
CallWithoutFieldless ==
    /\ WithRelevantField(timeSlots) # timeSlots
    /\ CallWith(WithRelevantField(timeSlots),
                Len(WithRelevantField(timeSlots)), "removed")

\* the same call with the slots in another order
CallPermuted ==
    /\ Reverse(timeSlots) # timeSlots
    /\ CallWith(Reverse(timeSlots), visitsPerPeriod, "permuted")

\* the same daily call with other day fields and another visitsPerPeriod
CallDailyWithFields ==
    /\ frequency = "daily"
    /\ timeSlots # <<>>
    /\ \E f \in DayFieldValues, vpp \in VisitsPerPeriodValues :
          /\ vpp # visitsPerPeriod
          /\ CallWith(WithDayFields(timeSlots, f[1], f[2]), vpp, "dayFields")

\* the same call without its occurrences of 0
CallWithoutOccurrences ==
    /\ occurrences = Some(0)
    /\ CallAgain(timeSlots, visitsPerPeriod, None, "noOccurrences")

RepeatNext ==
    Next \/ CallWithoutFieldless \/ CallPermuted \/ CallDailyWithFields
         \/ CallWithoutOccurrences

RepeatSpec == Init /\ [][RepeatNext]_vars

---------------------------------------------------------------------------
(* The callers of generateVisitDates: the POST /api/visits handler
   (pages/api/visits/index.ts) and the add-visit form (pages/visits/add.tsx).
   In state "request" the argument variables hold the fields of the request
   body, or of the form, before any validation. *)

\* the start dates of the requests
CallerStartDates == { <<2024, 1, 1>>, <<2024, 1, 31>> }

\* the end dates of the requests: absent, before the start, inside the
\* first week, inside the second, and later
CallerEndDates(s) ==
    { None } \cup { Some(CivilFromDays(DayOf(parseISO(s)) + n)) :
                       n \in { -1, 0, 4, 8, MaxEndSpan, FarEndSpan } }

\* a slot time outside HH:mm, "25:00"
MalformedTime == <<25, 0>>

\* the slot lists of the requests: those of SlotLists and, per frequency,
\* one slot with a malformed time
CallerSlotLists(f) ==
    SlotLists(f) \cup
    { << TimeSlot(MalformedTime,
                  IF f = "weekly" THEN Some(3) ELSE None,
                  IF f = "monthly" THEN Some(15) ELSE None) >> }

\* body.visitsPerPeriod / the form's visitsPerPeriod
RequestVisitsPerPeriod == 0 .. 2

\* body.patientId, or the form's selectedPatientId ('' read as absent)
PatientIds == { None, Some("p1") }

\* body.visitorId, or the form's visitor ('' read as absent)
VisitorIds == { None, Some("u1") }

\* types/index.ts line 1 (two of the four services)
Services == { "Physical Therapy", "Occupational Therapy" }

EndDateTypes == { "infinite", "date", "occurrences" }

\* a response of the handler: res.status(status).json(...)
Response(status, message, visit) ==
    [status |-> status, message |-> message, visit |-> visit]

\* a visit record, api lines 51-63 and add.tsx lines 222-233 (the id, the
\* visitor and the copied request fields are left out)
ScheduledVisit(pid, generatedDates) ==
    [patientId |-> pid, generatedDates |-> generatedDates]

\* mutant of ApiNoVisits: the empty result not tested
ApiNoVisits_Never(generatedDates) == FALSE

\* api line 45: generatedDates.length === 0
ApiNoVisits(generatedDates) == Len(generatedDates) = 0

\* add.tsx line 217: generatedDates.length === 0
FormNoVisits(generatedDates) == Len(generatedDates) = 0

\* mutant of ApiValidation: the test of line 31 left out
ApiValidation_NoLengthTest(pid, vid) ==
    IF pid = None \/ vid = None
    THEN Some("Missing required fields")
    ELSE IF visitsPerPeriod < 1
    THEN Some("visitsPerPeriod must be at least 1")
    ELSE IF Len(timeSlots) = 0
    THEN Some("timeSlots array is required")
    ELSE None

\* api lines 18-33: the message of the first failing test, or None
ApiValidation(pid, vid) ==
    IF pid = None \/ vid = None
    THEN Some("Missing required fields")
    ELSE IF visitsPerPeriod < 1
    THEN Some("visitsPerPeriod must be at least 1")
    ELSE IF Len(timeSlots) = 0
    THEN Some("timeSlots array is required")
    ELSE IF Len(timeSlots) # visitsPerPeriod
    THEN Some("Number of time slots must match visits per period")
    ELSE None

\* api lines 15-43: the POST handler up to the call of generateVisitDates
PostHandlerCall ==
    /\ pc = "request"
    /\ \E pid \in PatientIds, vid \in VisitorIds :
          LET invalid == ApiValidation(pid, vid)
          IN  /\ patientId' = pid
              /\ IF invalid # None
                 THEN /\ apiResponse' = Some(Response(400, invalid[1], None))
                      /\ pc' = "handled"
                 ELSE /\ apiResponse' = None
                      /\ pc' = "loop"
    /\ caller' = "api"
    /\ UNCHANGED <<frequency, visitsPerPeriod, startDate, timeSlots, endDate,
                   occurrences, periodCount, dayCount, weekOffset, monthOffset,
                   dates, result, repeatVars, otherVars, errors, visitsStore,
                   patientsStore>>

\* api lines 45-65: the POST handler after generateVisitDates has returned
PostHandlerRespond ==
    /\ pc = "done"
    /\ caller = "api"
    /\ apiResponse' =
          IF ApiNoVisits(result)
          THEN Some(Response(400,
                   "No visits could be generated with the provided parameters",
                   None))
          ELSE Some(Response(201, "",
                   Some(ScheduledVisit(patientId[1], result))))
    /\ pc' = "handled"
    /\ UNCHANGED <<frequency, visitsPerPeriod, startDate, timeSlots, endDate,
                   occurrences, periodCount, dayCount, weekOffset, monthOffset,
                   dates, result, repeatVars, otherVars, caller, patientId, errors,
                   visitsStore, patientsStore>>

---------------------------------------------------------------------------
(* The vocabulary of the properties: calendar days, stated without the     *)
(* generator's own date arithmetic                                         *)

Done == pc = "done"
Visits == { result[i] : i \in 1 .. Len(result) }
SlotIndexes == 1 .. Len(timeSlots)
SlotTimesUsed == { timeSlots[i].time : i \in SlotIndexes }

StartDay == DaysFromCivil(startDate[1], startDate[2], startDate[3])
EndDay == DaysFromCivil(endDate[1][1], endDate[1][2], endDate[1][3])
Weekday(day) == (day + 4) % 7
\* the ISO string of time-of-day t on calendar day `day`
Iso(day, t) == <<CivilFromDays(day)[1], CivilFromDays(day)[2],
                 CivilFromDays(day)[3], t[1], t[2]>>
\* the calendar day of an ISO string
IsoDay(v) == DaysFromCivil(v[1], v[2], v[3])

\* the Sunday of startDate's week
StartSunday == StartDay - Weekday(StartDay)
\* months counted from year 0: the month of startDate, and its successors
StartMonth == startDate[1] * 12 + startDate[2] - 1
FirstOfMonth(mi) == DaysFromCivil(mi \div 12, (mi % 12) + 1, 1)
MonthLength(mi) == FirstOfMonth(mi + 1) - FirstOfMonth(mi)
\* day d of month mi, d clamped to the month's length
ClampedDay(mi, d) ==
    FirstOfMonth(mi) + (IF d < MonthLength(mi) THEN d ELSE MonthLength(mi)) - 1

WeeklySlotIndexes == { i \in SlotIndexes : timeSlots[i].dayOfWeek # None }
MonthlySlotIndexes == { i \in SlotIndexes : timeSlots[i].dayOfMonth # None }

\* the calendar day of slot i in period k
WeeklyDay(k, i) == StartSunday + 7 * k + timeSlots[i].dayOfWeek[1]
MonthlyDay(k, i) == ClampedDay(StartMonth + k, timeSlots[i].dayOfMonth[1])

\* the visits of periods 0 .. n-1, those before startDate left out
ExpectedDaily(n) ==
    { Iso(StartDay + k, timeSlots[i].time) : k \in 0 .. (n - 1), i \in SlotIndexes }
ExpectedWeekly(n) ==
    { Iso(WeeklyDay(ki[1], ki[2]), timeSlots[ki[2]].time) :
        ki \in { x \in (0 .. (n - 1)) \X WeeklySlotIndexes :
                    WeeklyDay(x[1], x[2]) >= StartDay } }
ExpectedMonthly(n) ==
    { Iso(MonthlyDay(ki[1], ki[2]), timeSlots[ki[2]].time) :
        ki \in { x \in (0 .. (n - 1)) \X MonthlySlotIndexes :
                    MonthlyDay(x[1], x[2]) >= StartDay } }

EndOnly == endDate # None /\ occurrences = None
OccurrencesOnly == endDate = None /\ occurrences # None /\ occurrences[1] >= 1
OpenEnded == endDate = None /\ occurrences = None
N == occurrences[1]

---------------------------------------------------------------------------
(* C1 - C10 *)

\* C1 (as claimed): weekly, endDate set, occurrences unset: every calendar
\* date D in startDate..endDate whose weekday is some slot's dayOfWeek has a
\* visit at that slot's time.
C1_WeeklyEndDateInclusive ==
    (Done /\ frequency = "weekly" /\ EndOnly) =>
        \A D \in StartDay .. EndDay : \A i \in WeeklySlotIndexes :
            timeSlots[i].dayOfWeek[1] = Weekday(D)
                => Iso(D, timeSlots[i].time) \in Visits

\* C2 (as claimed): monthly, endDate set, occurrences unset: for every month
\* from startDate's through endDate's and every slot with a dayOfMonth, the
\* clamped date is emitted whenever it lies in [startDate, endDate].
C2_MonthlyEndDateInclusive ==
    (Done /\ frequency = "monthly" /\ EndOnly) =>
        \A mi \in StartMonth .. (endDate[1][1] * 12 + endDate[1][2] - 1) :
          \A i \in MonthlySlotIndexes :
            LET D == ClampedDay(mi, timeSlots[i].dayOfMonth[1])
            IN  (StartDay <= D /\ D <= EndDay)
                    => Iso(D, timeSlots[i].time) \in Visits

\* C3 (as claimed): whenever occurrences is unset the result has at most
\* 100 x len(timeSlots) elements, also with an endDate far after startDate.
C3_CapWheneverNoOccurrences ==
    (Done /\ occurrences = None) => Len(result) <= SafetyCap * Len(timeSlots)

\* C3 (amended): when neither occurrences nor endDate is set, at most 100
\* periods are iterated and at most 100 x len(timeSlots) dates are collected
\* and returned; when only endDate is set the cap does not apply and the
\* number of periods is bounded by the number of days from startDate through
\* endDate.
C3_CapWhenOpenEnded ==
    /\ OpenEnded =>
          /\ periodCount <= SafetyCap
          /\ Len(dates) <= SafetyCap * Len(timeSlots)
          /\ Len(result) <= SafetyCap * Len(timeSlots)
    /\ EndOnly =>
          /\ periodCount <= (IF EndDay >= StartDay THEN EndDay - StartDay + 1 ELSE 0)
          /\ Len(result) <= periodCount * Len(timeSlots)

\* C3 witness: an open-ended daily call that returned cap x slots visits
C3_Witness ==
    /\ Done /\ OpenEnded /\ frequency = "daily"
    /\ Len(timeSlots) = 2
    /\ Len(result) = SafetyCap * 2

\* C4: weekly, occurrences = N, no endDate: the output is exactly the
\* instants (Sunday of startDate's week + 7k + dayOfWeek, slot time),
\* k in 0..N-1, minus those dated before startDate; so at most
\* N x len(timeSlots) visits, all inside the N weeks from that Sunday.
C4_WeeklyOccurrences ==
    (Done /\ frequency = "weekly" /\ OccurrencesOnly) =>
        /\ Visits = ExpectedWeekly(N)
        /\ Len(result) <= N * Len(timeSlots)
        /\ \A v \in Visits :
              StartSunday <= IsoDay(v) /\ IsoDay(v) < StartSunday + 7 * N

\* C4 witness: two weeks, a slot dropped in week 0 and one kept
C4_Witness ==
    /\ Done /\ frequency = "weekly" /\ OccurrencesOnly /\ N = 2
    /\ Len(timeSlots) = 2
    /\ Len(result) = 3

\* C5: weekly / monthly, occurrences = N, no endDate: a slot whose period-0
\* date is before startDate has no visit in period 0, is not moved to a later
\* date, and has exactly N-1 visits (periods 1..N-1); alone it gives N-1
\* visits, none when N = 1.
C5_EarlySlotDropped ==
    (Done /\ frequency \in {"weekly", "monthly"} /\ OccurrencesOnly) =>
        LET idx == IF frequency = "weekly" THEN WeeklySlotIndexes
                   ELSE MonthlySlotIndexes
            Day(k, i) == IF frequency = "weekly" THEN WeeklyDay(k, i)
                         ELSE MonthlyDay(k, i)
        IN  \A i \in idx :
              Day(0, i) < StartDay =>
                /\ Iso(Day(0, i), timeSlots[i].time) \notin Visits
                /\ Cardinality({ Iso(Day(k, i), timeSlots[i].time) :
                                   k \in 1 .. (N - 1) } \cap Visits) = N - 1
                /\ Len(timeSlots) = 1 => Len(result) = N - 1

\* C5 witness: a lone weekly slot before startDate in week 0, one period
C5_Witness ==
    /\ Done /\ frequency = "weekly" /\ OccurrencesOnly /\ N = 1
    /\ Len(timeSlots) = 1
    /\ 1 \in WeeklySlotIndexes
    /\ WeeklyDay(0, 1) < StartDay
    /\ result = <<>>

\* C6: monthly, occurrences = N, no endDate: for k in 0..N-1 and each slot
\* with dayOfMonth d the date is day min(d, month length) of month
\* startDate + k months, unless before startDate; 31 from 2024-01-01 with
\* N = 2 gives Jan 31 and Feb 29.
C6_MonthlyClamp ==
    (Done /\ frequency = "monthly" /\ OccurrencesOnly) =>
        /\ Visits = ExpectedMonthly(N)
        /\ (startDate = <<2024, 1, 1>> /\ N = 2
              /\ timeSlots = << TimeSlot(<<9, 0>>, None, Some(31)) >>)
             => result = << <<2024, 1, 31, 9, 0>>, <<2024, 2, 29, 9, 0>> >>

\* C6 witness: dayOfMonth 31 reached February 2024
C6_Witness ==
    /\ Done /\ frequency = "monthly" /\ OccurrencesOnly /\ N = 2
    /\ startDate = <<2024, 1, 1>>
    /\ timeSlots = << TimeSlot(<<9, 0>>, None, Some(31)) >>
    /\ <<2024, 2, 29, 9, 0>> \in Visits

\* C7: daily, endDate set, occurrences unset: one visit per day of
\* startDate..endDate and slot time, none after endDate.
C7_DailyEndDate ==
    (Done /\ frequency = "daily" /\ EndOnly) =>
        /\ Visits = { Iso(D, t) : D \in StartDay .. EndDay, t \in SlotTimesUsed }
        /\ Len(result) = Cardinality((StartDay .. EndDay) \X SlotTimesUsed)
        /\ \A v \in Visits : IsoDay(v) <= EndDay

\* C7 witness: startDate .. startDate + 2, one slot, three visits
C7_Witness ==
    /\ Done /\ frequency = "daily" /\ EndOnly
    /\ EndDay = StartDay + 2
    /\ Len(timeSlots) = 1
    /\ Len(result) = 3
    /\ result[3] = Iso(EndDay, timeSlots[1].time)

\* C8: daily, occurrences = N, no endDate: exactly the days
\* startDate .. startDate+N-1, one visit per distinct slot time each; a day
\* is one period whatever the number of slots.
C8_DailyOccurrences ==
    (Done /\ frequency = "daily" /\ OccurrencesOnly) =>
        /\ periodCount = N
        /\ Visits = ExpectedDaily(N)
        /\ Len(result) = N * Cardinality(SlotTimesUsed)

\* C8 witness: two days of two slots
C8_Witness ==
    /\ Done /\ frequency = "daily" /\ OccurrencesOnly /\ N = 2
    /\ startDate = <<2024, 1, 1>>
    /\ result = << <<2024, 1, 1, 9, 0>>, <<2024, 1, 1, 12, 0>>,
                   <<2024, 1, 2, 9, 0>>, <<2024, 1, 2, 12, 0>> >>

\* C9: neither endDate nor occurrences: exactly the periods 0..99 are
\* generated, for every frequency.
C9_OpenEndedHundredPeriods ==
    (Done /\ OpenEnded) =>
        /\ periodCount = SafetyCap
        /\ frequency = "daily" => Visits = ExpectedDaily(SafetyCap)
        /\ frequency = "weekly" => Visits = ExpectedWeekly(SafetyCap)
        /\ frequency = "monthly" => Visits = ExpectedMonthly(SafetyCap)

\* C9 witness: the last of 100 days
C9_Witness ==
    /\ Done /\ OpenEnded /\ frequency = "daily"
    /\ Len(timeSlots) = 1
    /\ Len(result) = SafetyCap
    /\ result[SafetyCap] = Iso(StartDay + SafetyCap - 1, timeSlots[1].time)

\* the number of periods after which the loop has to have broken
LoopBound ==
    IF occurrences # None /\ occurrences[1] >= 1 THEN occurrences[1]
    ELSE IF endDate # None
    THEN (IF EndDay >= StartDay THEN EndDay - StartDay + 1 ELSE 0)
    ELSE SafetyCap

\* the break test of the branch the call is in, at the current period
LoopBreaks ==
    IF frequency = "daily" THEN DailyBreak(addDays(start, dayCount))
    ELSE IF frequency = "weekly" THEN WeeklyBreak
    ELSE MonthlyBreak

\* the loop counter of the branch the call is in
BranchCounter ==
    IF frequency = "daily" THEN dayCount
    ELSE IF frequency = "weekly" THEN weekOffset
    ELSE monthOffset

\* C10: every call returns, for each frequency and termination mode, also
\* with slots lacking the frequency's field: the number of passes of the
\* period loop (periodCount, which each pass advances together with the
\* branch's own counter) never exceeds a bound fixed by the arguments, the
\* loop breaks at the latest when that bound is reached, and it is never the
\* model's PeriodBound that stops it.
C10_Terminates ==
    /\ frequency \in Frequencies
    /\ periodCount <= LoopBound
    /\ LoopBound < PeriodBound
    /\ BranchCounter = periodCount
    /\ (pc = "loop" /\ periodCount = LoopBound) => LoopBreaks
    /\ pc \in {"loop", "return", "done"}

\* C10 witness: a weekly call whose only slot has no dayOfWeek, open-ended,
\* has returned (empty) after the cap
C10_Witness ==
    /\ Done /\ OpenEnded /\ frequency = "weekly"
    /\ Len(timeSlots) = 1 /\ WeeklySlotIndexes = {}
    /\ periodCount = SafetyCap
    /\ result = <<>>

\* the form's patientName field
PatientNames == { "", "Ann" }

\* add.tsx line 152: the time matches /^([0-1]?[0-9]|2[0-3]):[0-5][0-9]$/
ValidTime(time) == time[1] \in 0 .. 23 /\ time[2] \in 0 .. 59

\* add.tsx lines 150-161: the errors of slot i (keys count from 0)
SlotErrors(i) ==
    LET slot == timeSlots[i]
        n == ToString(i - 1)
    IN  (IF ~ValidTime(slot.time)
         THEN { <<"timeSlot_" \o n, "Please enter a valid time (HH:mm)">> }
         ELSE {})
        \cup
        (IF /\ frequency = "weekly"
            /\ \/ slot.dayOfWeek = None
               \/ slot.dayOfWeek[1] < 0
               \/ slot.dayOfWeek[1] > 6
         THEN { <<"dayOfWeek_" \o n, "Please select a day of week">> }
         ELSE {})
        \cup
        (IF /\ frequency = "monthly"
            /\ \/ slot.dayOfMonth = None
               \/ slot.dayOfMonth[1] < 1
               \/ slot.dayOfMonth[1] > 31
         THEN { <<"dayOfMonth_" \o n,
                  "Please enter a valid day of month (1-31)">> }
         ELSE {})

\* add.tsx lines 100-165: newErrors, a set of <<key, message>>. frequency
\* and startDate are always filled in; endDate = None is the empty field;
\* visitor is <<visitorType, selectedVisitorId>>.
validateForm(mode, patientName, selectedPatientId, visitor, endDateType) ==
    (IF mode = "new" /\ patientName = ""
     THEN { <<"patientName", "Patient name is required">> } ELSE {})
    \cup
    (IF mode # "new" /\ selectedPatientId = None
     THEN { <<"selectedPatientId", "Please select a patient">> } ELSE {})
    \cup
    (IF visitor[1] = "other" /\ visitor[2] = None
     THEN { <<"selectedVisitorId", "Please select a visitor">> } ELSE {})
    \cup
    (IF visitsPerPeriod < 1
     THEN { <<"visitsPerPeriod", "Visits per period must be at least 1">> }
     ELSE {})
    \cup
    (IF endDateType = "date" /\ endDate = None
     THEN { <<"endDate", "End date is required">> }
     ELSE IF /\ endDateType = "occurrences"
             /\ (occurrences = None \/ occurrences[1] < 1)
     THEN { <<"occurrences", "Number of occurrences must be at least 1">> }
     ELSE {})
    \cup
    (IF endDate # None /\ parseISO(startDate) > parseISO(endDate[1])
     THEN { <<"endDate", "End date must be after start date">> } ELSE {})
    \cup
    (IF Len(timeSlots) # visitsPerPeriod
     THEN { <<"timeSlots",
              "Please configure " \o ToString(visitsPerPeriod) \o " time slot"
                  \o (IF visitsPerPeriod > 1 THEN "s" ELSE "")>> }
     ELSE {})
    \cup
    UNION { SlotErrors(i) : i \in 1 .. Len(timeSlots) }

\* usePatientsQuery.ts line 226: patients.findIndex(p => p.id === id),
\* 0 for -1
FindIndex(store, id) ==
    IF \E i \in 1 .. Len(store) : store[i].id = id
    THEN CHOOSE i \in 1 .. Len(store) :
             /\ store[i].id = id
             /\ \A j \in 1 .. (i - 1) : store[j].id # id
    ELSE 0

\* usePatientsQuery.ts lines 224-232: patientsStorage.update(id, updates)
\* when the write succeeds
UpdatePatient(store, id, updates) ==
    LET index == FindIndex(store, id)
    IN  IF index = 0 THEN store
        ELSE [store EXCEPT ![index] =
                 [f \in DOMAIN store[index] |->
                     IF f \in DOMAIN updates THEN updates[f]
                     ELSE store[index][f]]]

\* add.tsx lines 34-35, 118, 205: visitorType and selectedVisitorId
VisitorChoices == { <<"current", Some("u1")>>, <<"other", None>> }

\* add.tsx lines 170-215: handleSubmit, for one state of the form's fields,
\* up to the call of generateVisitDates. written is the outcome of the
\* localStorage write (setItem, usePatientsQuery.ts lines 189-205).
SubmitForm(mode, patientName, selectedPatientId, visitor, endDateType) ==
    LET newErrors == validateForm(mode, patientName, selectedPatientId,
                                  visitor, endDateType)
    IN  IF newErrors # {}
        THEN /\ errors' = newErrors
             /\ pc' = "handled"
             /\ UNCHANGED <<patientsStore, patientId, endDate, occurrences>>
        ELSE \E service \in Services, written \in BOOLEAN :
                IF mode = "new" /\ ~written
                THEN /\ errors' = { <<"submit", "Failed to save patient">> }
                     /\ pc' = "handled"
                     /\ UNCHANGED <<patientsStore, patientId, endDate,
                                    occurrences>>
                ELSE /\ errors' = {}
                     /\ pc' = "loop"
                     /\ patientsStore' =
                           IF mode = "new"
                           THEN Append(patientsStore,
                                       Patient("new", service, None))
                           ELSE IF /\ written
                                   /\ FindIndex(patientsStore,
                                                selectedPatientId[1]) # 0
                                   /\ patientsStore[FindIndex(patientsStore,
                                         selectedPatientId[1])].service # service
                           THEN UpdatePatient(patientsStore,
                                    selectedPatientId[1], [service |-> service])
                           ELSE patientsStore
                     /\ patientId' = IF mode = "new" THEN Some("new")
                                     ELSE selectedPatientId
                     /\ endDate' = IF endDateType = "date" THEN endDate
                                   ELSE None
                     /\ occurrences' = IF endDateType = "occurrences"
                                       THEN occurrences ELSE None

\* add.tsx lines 167-215: handleSubmit up to the call of generateVisitDates
handleSubmitCall ==
    /\ pc = "request"
    /\ \E visitor \in VisitorChoices, endDateType \in EndDateTypes :
          \/ \E patientName \in PatientNames :
                SubmitForm("new", patientName, None, visitor, endDateType)
          \/ \E selectedPatientId \in PatientIds :
                SubmitForm("existing", "", selectedPatientId, visitor,
                           endDateType)
    /\ caller' = "form"
    /\ UNCHANGED <<frequency, visitsPerPeriod, startDate, timeSlots,
                   periodCount, dayCount, weekOffset, monthOffset, dates,
                   result, repeatVars, otherVars, apiResponse, visitsStore>>

\* add.tsx lines 217-254: handleSubmit after generateVisitDates has returned
handleSubmitSave ==
    /\ pc = "done"
    /\ caller = "form"
    /\ \E written \in BOOLEAN, updated \in BOOLEAN :
          IF FormNoVisits(result)
          THEN /\ errors' = { <<"submit",
                   "No visits could be generated with the provided parameters">> }
               /\ UNCHANGED <<visitsStore, patientsStore>>
          ELSE IF ~written
          THEN /\ errors' = { <<"submit", "Failed to save visit">> }
               /\ UNCHANGED <<visitsStore, patientsStore>>
          ELSE /\ visitsStore' =
                     Append(visitsStore, ScheduledVisit(patientId[1], result))
               /\ patientsStore' =
                     IF updated
                     THEN UpdatePatient(patientsStore, patientId[1],
                                        [lastVisit |-> Some(result[1])])
                     ELSE patientsStore
               /\ UNCHANGED errors
    /\ pc' = "handled"
    /\ UNCHANGED <<frequency, visitsPerPeriod, startDate, timeSlots, endDate,
                   occurrences, periodCount, dayCount, weekOffset, monthOffset,
                   dates, result, repeatVars, otherVars, caller, patientId, apiResponse>>

CallerInit ==
    /\ frequency \in Frequencies
    /\ startDate \in CallerStartDates
    /\ timeSlots \in CallerSlotLists(frequency)
    /\ endDate \in CallerEndDates(startDate)
    /\ occurrences \in OccurrenceValues
    /\ visitsPerPeriod \in RequestVisitsPerPeriod
    /\ periodCount = 0
    /\ dayCount = 0
    /\ weekOffset = 0
    /\ monthOffset = 0
    /\ dates = <<>>
    /\ result = <<>>
    /\ pc = "request"
    /\ previous = None
    /\ relation = "none"
    /\ caller = "none"
    /\ patientId = None
    /\ apiResponse = None
    /\ errors = {}
    /\ visitsStore = <<>>
    /\ patientsStore = ExistingPatients
    /\ LegacyIdle
    /\ PageIdle
    /\ InvoicesIdle
    /\ HookIdle

CallerNext ==
    Next \/ PostHandlerCall \/ PostHandlerRespond \/ handleSubmitCall
         \/ handleSubmitSave

CallerSpec == CallerInit /\ [][CallerNext]_vars

---------------------------------------------------------------------------
(* C11 - C20 *)

\* the instant (minutes) an ISO string denotes
IsoInstant(v) == IsoDay(v) * 24 * 60 + v[4] * 60 + v[5]

\* C11: the returned sequence is non-decreasing by absolute timestamp,
\* whatever the order of timeSlots and the order in which dates were pushed.
C11_ResultSorted ==
    Done => \A i \in 1 .. (Len(result) - 1) :
                IsoInstant(result[i]) <= IsoInstant(result[i + 1])

\* C11 witness: dates were pushed out of order and returned in order
C11_Witness ==
    /\ Done
    /\ Len(dates) >= 2 /\ dates[1] > dates[2]
    /\ Len(result) >= 2 /\ IsoInstant(result[1]) < IsoInstant(result[2])

\* C12: no two elements of the result denote the same instant; dates pushed
\* for the same instant collapse to one visit, and distinct instants are
\* never merged: the result has one element per distinct instant pushed.
C12_NoDuplicates ==
    Done =>
        LET pushed == { dates[i] : i \in 1 .. Len(dates) }
            returned == { IsoInstant(result[i]) : i \in 1 .. Len(result) }
        IN  /\ Cardinality(returned) = Len(result)
            /\ returned = pushed

\* C12 witness: dayOfMonth 30 and 31 at the same time met in April 2024
C12_Witness ==
    /\ Done /\ frequency = "monthly"
    /\ timeSlots = << TimeSlot(<<9, 0>>, None, Some(30)),
                      TimeSlot(<<9, 0>>, None, Some(31)) >>
    /\ <<2024, 4, 30, 9, 0>> \in Visits
    /\ Len(result) < Len(dates)

\* C14: every visit is dated on or after startDate and, when endDate is set,
\* on or before endDate.
C14_WithinWindow ==
    Done => \A v \in Visits :
                /\ IsoDay(v) >= StartDay
                /\ endDate # None => IsoDay(v) <= EndDay

\* C14 witness: endDate and occurrences both set, the last visit on endDate
C14_Witness ==
    /\ Done /\ endDate # None /\ occurrences # None
    /\ EndDay > StartDay
    /\ Len(result) >= 2
    /\ IsoDay(result[1]) = StartDay
    /\ IsoDay(result[Len(result)]) = EndDay

\* the number of periods a weekly call iterates
WeeklyPeriods ==
    LET byEnd == IF EndDay >= StartDay THEN (EndDay - StartDay) \div 7 ELSE 0
        byCap == IF occurrences # None /\ occurrences[1] >= 1
                 THEN occurrences[1] ELSE SafetyCap
    IN  IF endDate = None THEN byCap
        ELSE IF occurrences # None /\ occurrences[1] >= 1
        THEN (IF byEnd < byCap THEN byEnd ELSE byCap)
        ELSE byEnd

\* C16: a weekly call whose slots all lack dayOfWeek returns the empty
\* sequence for any startDate, endDate and occurrences, after iterating the
\* periods up to the bound that applies.
C16_WeeklyNoDayOfWeek ==
    (Done /\ frequency = "weekly" /\ WeeklySlotIndexes = {}) =>
        /\ result = <<>>
        /\ periodCount = WeeklyPeriods

\* C16 witness: two slots without dayOfWeek, two periods iterated
C16_Witness ==
    /\ Done /\ frequency = "weekly" /\ OccurrencesOnly /\ N = 2
    /\ Len(timeSlots) = 2 /\ WeeklySlotIndexes = {}
    /\ periodCount = 2
    /\ result = <<>>

\* the days of startDate..endDate some slot of the frequency falls on
CandidateDays ==
    { D \in StartDay .. EndDay :
        \/ frequency = "daily" /\ timeSlots # <<>>
        \/ frequency = "weekly" /\ \E i \in WeeklySlotIndexes :
                timeSlots[i].dayOfWeek[1] = Weekday(D)
        \/ frequency = "monthly" /\ \E i \in MonthlySlotIndexes :
                D = ClampedDay(CivilFromDays(D)[1] * 12 + CivilFromDays(D)[2] - 1,
                               timeSlots[i].dayOfMonth[1]) }

\* C17: when no candidate date lies in startDate..endDate (in particular
\* when endDate is before startDate) the call returns the empty sequence,
\* for every frequency.
C17_EmptyWindow ==
    (Done /\ endDate # None /\ CandidateDays = {}) => result = <<>>

\* C17 witness: endDate before startDate, slots present, occurrences set
C17_Witness ==
    /\ Done /\ endDate # None /\ EndDay < StartDay
    /\ occurrences = Some(2)
    /\ frequency = "daily" /\ Len(timeSlots) = 2
    /\ result = <<>>

\* the result of the previous call
PreviousResult == previous[1].result

\* C15: a slot missing the field its frequency reads (dayOfWeek for weekly,
\* dayOfMonth for monthly) is skipped without affecting the other slots: the
\* call returns what the same call returns with such slots removed.
C15_MissingFieldSkipped ==
    (Done /\ relation = "removed") => result = PreviousResult

\* C15 witness: a monthly list of a slot without dayOfMonth and a slot
\* with one, and a non-empty result with and without the former
C15_Witness ==
    /\ Done /\ relation = "removed" /\ frequency = "monthly"
    /\ Len(previous[1].timeSlots) = 2
    /\ previous[1].timeSlots[1].dayOfMonth = None
    /\ timeSlots = << previous[1].timeSlots[2] >>
    /\ result # <<>> /\ result = PreviousResult

\* C18: the result is the same for every order of timeSlots, for every
\* frequency and termination mode, including when endDate cuts a period
\* short.
C18_PermutationInvariant ==
    (Done /\ relation = "permuted") => result = PreviousResult

\* C18 witness: a weekly call with an endDate inside the second week,
\* slots Wednesday then Sunday, and the same call with Sunday then Wednesday
C18_Witness ==
    /\ Done /\ relation = "permuted" /\ frequency = "weekly"
    /\ startDate = <<2024, 1, 1>> /\ endDate = Some(<<2024, 1, 9>>)
    /\ previous[1].timeSlots = << TimeSlot(<<9, 0>>, Some(3), None),
                                  TimeSlot(<<9, 0>>, Some(0), None) >>
    /\ timeSlots = Reverse(previous[1].timeSlots)
    /\ result # <<>> /\ result = PreviousResult

\* C19: for daily frequency the result depends neither on the slots'
\* dayOfWeek and dayOfMonth nor on visitsPerPeriod: changing them while
\* keeping the times, startDate, endDate and occurrences leaves the result
\* unchanged.
C19_DailyIgnoresDayFields ==
    (Done /\ relation = "dayFields") => result = PreviousResult

\* C19 witness: daily slots given dayOfWeek 3 and dayOfMonth 31 and a
\* visitsPerPeriod that is not the number of slots
C19_Witness ==
    /\ Done /\ relation = "dayFields"
    /\ Len(timeSlots) = 2 /\ visitsPerPeriod = 3
    /\ timeSlots[1].dayOfWeek = Some(3) /\ timeSlots[1].dayOfMonth = Some(31)
    /\ previous[1].timeSlots[1].dayOfWeek = None
    /\ previous[1].visitsPerPeriod = 2
    /\ Len(result) >= 4 /\ result = PreviousResult

\* C20: every caller treats an empty generator result as a rejection: the
\* POST handler answers 400 with a message and builds no 201 visit record,
\* the form's handleSubmit sets an error and stores nothing, and no stored
\* visit has an empty generatedDates list.
C20_EmptyResultRejected ==
    /\ (pc = "handled" /\ caller = "api" /\ result = <<>>) =>
          /\ apiResponse[1].status = 400
          /\ apiResponse[1].message # ""
          /\ apiResponse[1].visit = None
    /\ (apiResponse # None /\ apiResponse[1].status = 201) =>
          apiResponse[1].visit[1].generatedDates # <<>>
    /\ (pc = "handled" /\ caller = "form" /\ result = <<>>) =>
          /\ errors # {}
          /\ visitsStore = <<>>
    /\ \A i \in 1 .. Len(visitsStore) : visitsStore[i].generatedDates # <<>>

\* C20 witness: a valid weekly form whose endDate falls inside the first
\* week is rejected after generation, nothing stored
C20_Witness ==
    /\ pc = "handled" /\ caller = "form" /\ frequency = "weekly"
    /\ periodCount = 0 /\ result = <<>>
    /\ errors = { <<"submit",
                    "No visits could be generated with the provided parameters">> }
    /\ visitsStore = <<>>

---------------------------------------------------------------------------
(* C21 - C30 *)

\* endDate and occurrences both supplied
BothBounds == endDate # None /\ occurrences # None

\* the days from startDate through endDate
WindowDays == IF EndDay >= StartDay THEN EndDay - StartDay + 1 ELSE 0

\* the smaller of two numbers
Min(a, b) == IF a < b THEN a ELSE b

\* C23 (as claimed): whenever endDate and occurrences are both supplied, at
\* most `occurrences` periods are iterated and no visit is dated after
\* endDate.
C23_BothBoundsAnyOccurrences ==
    (Done /\ BothBounds) =>
        /\ periodCount <= N
        /\ \A v \in Visits : IsoDay(v) <= EndDay

\* C23 (amended): when endDate and an occurrences of at least 1 are both
\* supplied, generation stops at whichever bound is reached first: at most
\* `occurrences` periods are iterated (exactly the smaller of occurrences
\* and the periods that fit before endDate, for daily and weekly) and no
\* visit is dated after endDate; an occurrences of 0 sets no bound.
C23_BothBounds ==
    (Done /\ BothBounds /\ N >= 1) =>
        /\ periodCount <= N
        /\ periodCount <= WindowDays
        /\ frequency = "daily" => periodCount = Min(N, WindowDays)
        /\ frequency = "weekly" => periodCount = WeeklyPeriods
        /\ \A v \in Visits : IsoDay(v) <= EndDay

\* C23 witness: a daily call stopped by occurrences before endDate
C23_Witness ==
    /\ Done /\ BothBounds /\ frequency = "daily"
    /\ N = 2 /\ EndDay = StartDay + 5
    /\ Len(timeSlots) = 1
    /\ periodCount = 2 /\ Len(result) = 2

\* C24: an occurrences of 0 is treated as if occurrences were absent: the
\* call returns what the same call without occurrences returns (bounded by
\* endDate, or by the cap of 100 periods), not the empty sequence.
C24_ZeroOccurrencesAbsent ==
    (Done /\ relation = "noOccurrences") => result = PreviousResult

\* C24 witness: an open-ended daily call with occurrences 0 returned the
\* 100 days that the call without occurrences returns
C24_Witness ==
    /\ Done /\ relation = "noOccurrences"
    /\ previous[1].occurrences = Some(0) /\ occurrences = None
    /\ frequency = "daily" /\ endDate = None /\ Len(timeSlots) = 1
    /\ Len(result) = SafetyCap /\ result = PreviousResult

\* the Sunday of the week that contains startDate + k weeks
SundayOfWeek(k) == (StartDay + 7 * k) - Weekday(StartDay + 7 * k)

\* C29: every weekly visit is, for some period k and slot, dated
\* (Sunday of the week containing startDate + k weeks) + dayOfWeek days: its
\* weekday is the slot's dayOfWeek, it lies inside that Sunday-aligned week,
\* and its time of day is the slot's.
C29_WeeklyDateComputation ==
    (Done /\ frequency = "weekly") =>
        \A v \in Visits :
            \E k \in 0 .. (periodCount - 1), i \in WeeklySlotIndexes :
                /\ IsoDay(v) = SundayOfWeek(k) + timeSlots[i].dayOfWeek[1]
                /\ Weekday(IsoDay(v)) = timeSlots[i].dayOfWeek[1]
                /\ Weekday(SundayOfWeek(k)) = 0
                /\ SundayOfWeek(k) <= IsoDay(v)
                /\ IsoDay(v) <= SundayOfWeek(k) + 6
                /\ <<v[4], v[5]>> = timeSlots[i].time

\* C29 witness: startDate Wednesday 2024-01-10, a Wednesday 12:00 slot,
\* the second visit a week after the first
C29_Witness ==
    /\ Done /\ frequency = "weekly" /\ startDate = <<2024, 1, 10>>
    /\ timeSlots = << TimeSlot(<<12, 0>>, Some(3), None) >>
    /\ Len(result) >= 2
    /\ result[1] = <<2024, 1, 10, 12, 0>>
    /\ result[2] = <<2024, 1, 17, 12, 0>>

\* a caller has invoked generateVisitDates
GeneratorInvoked == caller # "none" /\ pc \in {"loop", "return", "done"}

\* a caller has finished without invoking generateVisitDates
Refused ==
    /\ pc = "handled" /\ dates = <<>> /\ result = <<>> /\ periodCount = 0
    /\ caller = "api" => apiResponse # None /\ apiResponse[1].status = 400
    /\ caller = "form" => errors # {} /\ visitsStore = <<>>

\* C21 (as claimed): neither caller invokes the generator with a malformed
\* slot time or with startDate after endDate.
C21_CallersRejectMalformed ==
    GeneratorInvoked =>
        /\ \A i \in SlotIndexes : ValidTime(timeSlots[i].time)
        /\ endDate # None => StartDay <= EndDay

\* visitsPerPeriod is at least 1 and is the number of slots
SlotCountMatches == visitsPerPeriod >= 1 /\ Len(timeSlots) = visitsPerPeriod

\* C22: a caller invokes generateVisitDates only with visitsPerPeriod >= 1
\* and len(timeSlots) = visitsPerPeriod; otherwise the POST handler answers
\* 400 and the form refuses submission, before any date is generated.
C22_SlotCountEnforced ==
    /\ GeneratorInvoked => SlotCountMatches
    /\ (pc = "handled" /\ ~SlotCountMatches) => Refused

\* C22 witness: a POST with two slots and visitsPerPeriod 1 answered 400
C22_Witness ==
    /\ Refused /\ caller = "api"
    /\ Len(timeSlots) = 2 /\ visitsPerPeriod = 1
    /\ apiResponse[1].message =
          "Number of time slots must match visits per period"

\* C25 (as claimed): when handleSubmit aborts because the generator
\* returned an empty list, no visit is stored and the patient store is as
\* it was before the submission.
C25_AbortLeavesStorage ==
    (/\ pc = "handled" /\ caller = "form"
     /\ errors = { <<"submit",
           "No visits could be generated with the provided parameters">> }) =>
        /\ visitsStore = <<>>
        /\ patientsStore = ExistingPatients

---------------------------------------------------------------------------
(* The older generateVisitDates (part_012 lines 128-232), which spreads    *)
(* visitsPerPeriod visits evenly over each period.  It is called with the  *)
(* frequency, visitsPerPeriod, startDate, endDate and occurrences of the   *)
(* slot-based call, once that call has returned; lines 135 and 136 are     *)
(* the slot-based lines 15 and 16 (start and end).                         *)

\* line 141: occurrences || (end ? null : 100)
LegacyMaxPeriods ==
    IF occurrences # None /\ occurrences[1] # 0 THEN occurrences
    ELSE IF end # None THEN None ELSE Some(SafetyCap)

\* lines 154, 174, 206: maxPeriods && periodCount >= maxPeriods
LegacyMaxPeriodsReached ==
    LegacyMaxPeriods # None /\ legacyPeriodCount >= LegacyMaxPeriods[1]

\* lines 153-154
LegacyDailyBreak(baseDate) ==
    \/ end # None /\ isAfter(baseDate, end[1])
    \/ LegacyMaxPeriodsReached

\* mutant of LegacyWeeklyBreak: the week's first day compared with end
LegacyWeeklyBreak_StartOfPeriod ==
    \/ end # None /\ isAfter(addWeeks(start, legacyOffset), end[1])
    \/ LegacyMaxPeriodsReached

\* lines 173-174
LegacyWeeklyBreak ==
    \/ end # None /\ isAfter(addWeeks(start, legacyOffset + 1), end[1])
    \/ LegacyMaxPeriodsReached

\* lines 205-206
LegacyMonthlyBreak ==
    \/ end # None /\ isAfter(addMonths(start, legacyOffset + 1), end[1])
    \/ LegacyMaxPeriodsReached

\* Math.floor(n / d); with d = 0 the quotient is Infinity in the source
\* and is never used, because no loop over visitsPerPeriod then runs
FloorDiv(n, d) == IF d = 0 THEN 0 ELSE n \div d

\* lines 156-160: the visits of one day, i counted from 0
RECURSIVE LegacyDailyVisits(_, _, _)
LegacyDailyVisits(baseDate, i, acc) ==
    IF ~(i < visitsPerPeriod) THEN acc
    ELSE LET hoursPerVisit == FloorDiv(24, visitsPerPeriod)
             visitDate == setHours(baseDate, 9 + (i * hoursPerVisit), 0)
         IN  LegacyDailyVisits(baseDate, i + 1, Append(acc, visitDate))

\* lines 182-192: the visits of one week, i counted from 0
RECURSIVE LegacyWeeklyVisits(_, _, _)
LegacyWeeklyVisits(weekBaseDate, i, acc) ==
    IF ~(i < visitsPerPeriod) THEN acc
    ELSE LET interval == FloorDiv(7, visitsPerPeriod)
             visitDate == addDays(weekBaseDate, i * interval)
         IN  IF legacyOffset = 0 /\ isBefore(visitDate, start)
             THEN LegacyWeeklyVisits(weekBaseDate, i + 1, acc)
             ELSE IF end # None /\ isAfter(visitDate, end[1])
             THEN acc
             ELSE LegacyWeeklyVisits(weekBaseDate, i + 1,
                                     Append(acc, setHours(visitDate, 10, 0)))

\* lines 211-220: the visits of one month, i counted from 1
RECURSIVE LegacyMonthlyVisits(_, _, _)
LegacyMonthlyVisits(currentMonthStart, i, acc) ==
    IF ~(i <= visitsPerPeriod) THEN acc
    ELSE LET daysInMonth == getDate(NewDate(getFullYear(currentMonthStart),
                                 getMonth(currentMonthStart) + 1, 0))
             interval == FloorDiv(daysInMonth, visitsPerPeriod + 1)
             dayOfMonth == i * interval
             visitDate == NewDate(getFullYear(currentMonthStart),
                                  getMonth(currentMonthStart), dayOfMonth)
         IN  IF isBefore(visitDate, start)
             THEN LegacyMonthlyVisits(currentMonthStart, i + 1, acc)
             ELSE IF end # None /\ isAfter(visitDate, end[1])
             THEN acc
             ELSE LegacyMonthlyVisits(currentMonthStart, i + 1,
                                      Append(acc, setHours(visitDate, 10, 0)))

\* lines 128-142: the older generator is entered with the arguments of the
\* slot-based call that has returned
LegacyCall ==
    /\ pc = "done"
    /\ caller = "none"
    /\ previous = None
    /\ legacyPc = "idle"
    /\ legacyPc' = "loop"
    /\ legacyPeriodCount' = 0
    /\ legacyOffset' = 0
    /\ legacyDates' = <<>>
    /\ UNCHANGED <<frequency, visitsPerPeriod, startDate, timeSlots, endDate,
                   occurrences, periodCount, dayCount, weekOffset, monthOffset,
                   dates, result, pc, repeatVars, callerVars, legacyResult,
                   pageVars, invoiceVars, hookVars>>

\* what a pass of the older generator's loops leaves alone
LegacyFrame ==
    UNCHANGED <<frequency, visitsPerPeriod, startDate, timeSlots, endDate,
                occurrences, periodCount, dayCount, weekOffset, monthOffset,
                dates, result, pc, repeatVars, callerVars, legacyResult,
                pageVars, invoiceVars, hookVars>>

\* lines 149-164: one pass of the daily while loop
LegacyDailyStep ==
    /\ legacyPc = "loop"
    /\ frequency = "daily"
    /\ legacyPeriodCount < PeriodBound
    /\ LET baseDate == addDays(start, legacyOffset)
       IN  IF LegacyDailyBreak(baseDate)
           THEN /\ legacyPc' = "return"
                /\ UNCHANGED <<legacyPeriodCount, legacyOffset, legacyDates>>
           ELSE /\ legacyDates' = LegacyDailyVisits(baseDate, 0, legacyDates)
                /\ legacyPeriodCount' = legacyPeriodCount + 1
                /\ legacyOffset' = legacyOffset + 1
                /\ UNCHANGED legacyPc
    /\ LegacyFrame

\* lines 171-196: one pass of the weekly while loop
LegacyWeeklyStep ==
    /\ legacyPc = "loop"
    /\ frequency = "weekly"
    /\ legacyPeriodCount < PeriodBound
    /\ IF LegacyWeeklyBreak
       THEN /\ legacyPc' = "return"
            /\ UNCHANGED <<legacyPeriodCount, legacyOffset, legacyDates>>
       ELSE LET weekBaseDate == IF legacyOffset = 0 THEN start
                                ELSE addWeeks(start, legacyOffset)
            IN  /\ legacyDates' =
                      LegacyWeeklyVisits(weekBaseDate, 0, legacyDates)
                /\ legacyPeriodCount' = legacyPeriodCount + 1
                /\ legacyOffset' = legacyOffset + 1
                /\ UNCHANGED legacyPc
    /\ LegacyFrame

\* lines 201-224: one pass of the monthly while loop
LegacyMonthlyStep ==
    /\ legacyPc = "loop"
    /\ frequency = "monthly"
    /\ legacyPeriodCount < PeriodBound
    /\ IF LegacyMonthlyBreak
       THEN /\ legacyPc' = "return"
            /\ UNCHANGED <<legacyPeriodCount, legacyOffset, legacyDates>>
       ELSE LET currentMonthStart == addMonths(start, legacyOffset)
            IN  /\ legacyDates' =
                      LegacyMonthlyVisits(currentMonthStart, 1, legacyDates)
                /\ legacyPeriodCount' = legacyPeriodCount + 1
                /\ legacyOffset' = legacyOffset + 1
                /\ UNCHANGED legacyPc
    /\ LegacyFrame

\* lines 228-231
LegacyReturn ==
    /\ legacyPc = "return"
    /\ legacyResult' = SortedUnique(legacyDates)
    /\ legacyPc' = "done"
    /\ UNCHANGED <<frequency, visitsPerPeriod, startDate, timeSlots, endDate,
                   occurrences, periodCount, dayCount, weekOffset, monthOffset,
                   dates, result, pc, repeatVars, callerVars,
                   legacyPeriodCount, legacyOffset, legacyDates, pageVars,
                   invoiceVars, hookVars>>

LegacyNext ==
    Next \/ LegacyCall \/ LegacyDailyStep \/ LegacyWeeklyStep
         \/ LegacyMonthlyStep \/ LegacyReturn

LegacySpec == Init /\ [][LegacyNext]_vars

\* C30: for the same frequency, startDate, endDate and occurrences the
\* older generator leaves its period loop at the period index at which the
\* slot-based generator left its own: when both have returned their
\* period counts and their day, week or month counters are equal.
C30_SamePeriods ==
    legacyPc = "done" =>
        /\ pc = "done"
        /\ legacyPeriodCount = periodCount
        /\ legacyOffset = BranchCounter

\* both generators have left a weekly loop bounded by endDate alone after
\* two periods
C30_Witness ==
    /\ legacyPc = "done"
    /\ frequency = "weekly"
    /\ EndOnly
    /\ legacyPeriodCount = 2
    /\ periodCount = 2

---------------------------------------------------------------------------
(* The visit manager page (src/pages/visits/index.tsx).  A day is numbered *)
(* relative to the day the page was opened (day 0); a generated date is    *)
(* <<day, minute of the day>>.                                             *)

\* the generator and its callers at rest while a page or a hook is used
GeneratorIdle ==
    /\ frequency = "daily"
    /\ visitsPerPeriod = 0
    /\ startDate = <<2024, 1, 1>>
    /\ timeSlots = <<>>
    /\ endDate = None
    /\ occurrences = None
    /\ periodCount = 0
    /\ dayCount = 0
    /\ weekOffset = 0
    /\ monthOffset = 0
    /\ dates = <<>>
    /\ result = <<>>
    /\ pc = "idle"
    /\ previous = None
    /\ relation = "none"
    /\ caller = "none"
    /\ patientId = None
    /\ apiResponse = None
    /\ errors = {}
    /\ patientsStore = ExistingPatients

\* the days the date controls of the page are moved over
FirstDay == -1
LastDay == 1
Days == FirstDay .. LastDay

\* line 17: the patients usePatients returns
PagePatients == { "p1", "p2", "p3" }

\* line 18: the scheduled visits useVisitsQuery returns; the last one is
\* of a patient that no longer exists
PageScheduledVisits ==
    << [id |-> "v1", patientId |-> "p1",
        generatedDates |-> << <<0, 540>>, <<0, 840>>, <<1, 540>> >>],
       [id |-> "v2", patientId |-> "p2",
        generatedDates |-> << <<-1, 600>>, <<0, 600>> >>],
       [id |-> "v3", patientId |-> "p1",
        generatedDates |-> << <<1, 600>> >>],
       [id |-> "v4", patientId |-> "gone",
        generatedDates |-> << <<0, 660>> >>] >>

\* lines 131-144: the visits of one scheduled visit on the day shown
VisitsOnDay(visit, date) ==
    LET onDay == SelectSeq(visit.generatedDates, LAMBDA d : d[1] = date)
    IN  IF visit.patientId \notin PagePatients THEN <<>>
        ELSE [i \in 1 .. Len(onDay) |->
                 [id |-> <<visit.id, onDay[i]>>, visitId |-> visit.id,
                  patientId |-> visit.patientId, time |-> onDay[i]]]

\* Array.prototype.flatMap over the scheduled visits from index i on
RECURSIVE FlatMapVisits(_, _)
FlatMapVisits(i, date) ==
    IF i > Len(PageScheduledVisits) THEN <<>>
    ELSE VisitsOnDay(PageScheduledVisits[i], date) \o FlatMapVisits(i + 1, date)

\* line 145: .sort((a, b) => a.time.getTime() - b.time.getTime()), stable
RECURSIVE SortByTime(_)
SortByTime(s) ==
    IF Len(s) <= 1 THEN s
    ELSE LET last == s[Len(s)]
             front == SortByTime(SubSeq(s, 1, Len(s) - 1))
             before == SelectSeq(front, LAMBDA v : v.time[2] <= last.time[2])
             after == SelectSeq(front, LAMBDA v : v.time[2] > last.time[2])
         IN  before \o << last >> \o after

\* lines 127-145
individualVisits(date) == SortByTime(FlatMapVisits(1, date))

\* the ids of a sequence of individual visits
VisitIds(s) == { s[i].id : i \in 1 .. Len(s) }

\* individualVisits.filter(v => v.patientId === pid)
OfPatient(s, pid) == SelectSeq(s, LAMBDA v : v.patientId = pid)

\* lines 148-149
patientsWithVisitsToday(date) ==
    { p \in PagePatients :
         \E i \in 1 .. Len(individualVisits(date)) :
             individualVisits(date)[i].patientId = p }

\* what the handlers of the visit manager leave alone
PageFrame ==
    UNCHANGED <<frequency, visitsPerPeriod, startDate, timeSlots, endDate,
                occurrences, periodCount, dayCount, weekOffset, monthOffset,
                dates, result, pc, repeatVars, callerVars, legacyVars,
                invoiceVars, hookVars>>

\* lines 28-48
handleSelectPatient ==
    /\ \E pid \in PagePatients :
          LET ids == VisitIds(OfPatient(individualVisits(selectedDate),
                                        pid))
          IN  IF pid \in selectedPatients
              THEN /\ selectedPatients' = selectedPatients \ {pid}
                   /\ selectedVisits' = selectedVisits \ ids
              ELSE /\ selectedPatients' = selectedPatients \cup {pid}
                   /\ selectedVisits' = selectedVisits \cup ids
    /\ UNCHANGED selectedDate
    /\ PageFrame

\* lines 50-69, called from the checkbox of a listed visit (line 336)
handleSelectVisit ==
    /\ \E i \in 1 .. Len(individualVisits(selectedDate)) :
          LET visitId == individualVisits(selectedDate)[i].id
              pid == individualVisits(selectedDate)[i].patientId
              newSelected == IF visitId \in selectedVisits
                             THEN selectedVisits \ {visitId}
                             ELSE selectedVisits \cup {visitId}
              patientVisits == OfPatient(individualVisits(selectedDate),
                                         pid)
              selectedPatientVisits ==
                  SelectSeq(patientVisits, LAMBDA v : v.id \in newSelected)
          IN  /\ selectedVisits' = newSelected
              /\ selectedPatients' =
                    IF /\ Len(selectedPatientVisits) = Len(patientVisits)
                       /\ Len(patientVisits) > 0
                    THEN selectedPatients \cup {pid}
                    ELSE selectedPatients \ {pid}
    /\ UNCHANGED selectedDate
    /\ PageFrame

\* lines 175-183; the button is disabled while no visit is listed (line 261)
handleSelectAll ==
    /\ Len(individualVisits(selectedDate)) # 0
    /\ IF /\ Cardinality(selectedVisits) = Len(individualVisits(selectedDate))
          /\ Len(individualVisits(selectedDate)) > 0
       THEN /\ selectedVisits' = {}
            /\ selectedPatients' = {}
       ELSE /\ selectedVisits' = VisitIds(individualVisits(selectedDate))
            /\ selectedPatients' = patientsWithVisitsToday(selectedDate)
    /\ UNCHANGED selectedDate
    /\ PageFrame

\* lines 151-155
handlePreviousDay ==
    /\ selectedDate > FirstDay
    /\ selectedDate' = selectedDate - 1
    /\ UNCHANGED <<selectedPatients, selectedVisits>>
    /\ PageFrame

\* lines 157-161
handleNextDay ==
    /\ selectedDate < LastDay
    /\ selectedDate' = selectedDate + 1
    /\ UNCHANGED <<selectedPatients, selectedVisits>>
    /\ PageFrame

\* lines 163-167
handleToday ==
    /\ selectedDate' = 0
    /\ UNCHANGED <<selectedPatients, selectedVisits>>
    /\ PageFrame

\* lines 169-173
handleDateChange ==
    /\ \E newDate \in Days : selectedDate' = newDate
    /\ UNCHANGED <<selectedPatients, selectedVisits>>
    /\ PageFrame

PageInit ==
    /\ GeneratorIdle
    /\ visitsStore = <<>>
    /\ LegacyIdle
    /\ PageIdle
    /\ InvoicesIdle
    /\ HookIdle

PageNext ==
    \/ handleSelectPatient
    \/ handleSelectVisit
    \/ handleSelectAll
    \/ handlePreviousDay
    \/ handleNextDay
    \/ handleToday
    \/ handleDateChange

PageSpec == PageInit /\ [][PageNext]_vars

\* C26: on the visit manager page every id in selectedVisits is the id of
\* a visit listed for the selected date, and a patient with at least one
\* visit that day is in selectedPatients exactly when all of that
\* patient's visits that day are in selectedVisits.
C26_SelectionMatchesDay ==
    /\ selectedVisits \subseteq VisitIds(individualVisits(selectedDate))
    /\ \A p \in patientsWithVisitsToday(selectedDate) :
          p \in selectedPatients <=>
             VisitIds(OfPatient(individualVisits(selectedDate), p))
                 \subseteq selectedVisits

---------------------------------------------------------------------------
(* The invoices page (src/pages/invoices/index.tsx) with its query and     *)
(* mutations (part_011).  The page shows invoicesCache, the data of the    *)
(* ['invoices'] query; a successful mutation invalidates the query, which  *)
(* then holds what invoicesStorage.getAll() returns.  The patients and     *)
(* scheduled visits are those of the visit manager's queries.              *)

MaxInvoices == 2

\* the form's ratePerVisit field
Rates == { 0, 75 }

\* the form's selectedPatientId field; '' is None
InvoicePatientIds == { None, Some("p1"), Some("p2") }

\* the form's startDate and endDate fields; '' is None
InvoiceDates == { None } \cup { Some(d) : d \in Days }

\* invoicesStorage.add: the record appended to the stored array
invoicesStorageAdd(store, invoice) == Append(store, invoice)

\* invoicesStorage.update: the record of that id replaced
invoicesStorageUpdate(store, id, updated) ==
    [i \in 1 .. Len(store) |-> IF store[i].id = id THEN updated ELSE store[i]]

\* invoices/index.tsx lines 39-64
InvoiceFormErrors(selectedPatientId, startDay, endDay, ratePerVisit) ==
    (IF selectedPatientId = None THEN {"selectedPatientId"} ELSE {})
    \cup (IF startDay = None THEN {"startDate"} ELSE {})
    \cup (IF endDay = None \/ (startDay # None /\ startDay[1] > endDay[1])
          THEN {"endDate"} ELSE {})
    \cup (IF ratePerVisit <= 0 THEN {"ratePerVisit"} ELSE {})

\* lines 86-99: the visits of one scheduled visit within the range
RangeOfVisit(visit, startDay, endDay, ratePerVisit) ==
    LET inRange == SelectSeq(visit.generatedDates,
                             LAMBDA d : d[1] >= startDay /\ d[1] <= endDay)
    IN  [i \in 1 .. Len(inRange) |->
            [date |-> inRange[i], attended |-> TRUE, rate |-> ratePerVisit]]

\* lines 78 and 85-100: patientVisits.forEach from index i on
RECURSIVE CollectInRange(_, _, _, _, _)
CollectInRange(i, pid, startDay, endDay, ratePerVisit) ==
    IF i > Len(PageScheduledVisits) THEN <<>>
    ELSE (IF PageScheduledVisits[i].patientId = pid
          THEN RangeOfVisit(PageScheduledVisits[i], startDay, endDay,
                            ratePerVisit)
          ELSE <<>>)
         \o CollectInRange(i + 1, pid, startDay, endDay, ratePerVisit)

\* line 103: .sort by date, stable
RECURSIVE SortByDate(_)
SortByDate(s) ==
    IF Len(s) <= 1 THEN s
    ELSE LET last == s[Len(s)]
             key(v) == v.date[1] * MinutesPerDay + v.date[2]
             front == SortByDate(SubSeq(s, 1, Len(s) - 1))
             before == SelectSeq(front, LAMBDA v : key(v) <= key(last))
             after == SelectSeq(front, LAMBDA v : key(v) > key(last))
         IN  before \o << last >> \o after

\* lines 116 and 193: visits.filter(v => v.attended).length
AttendedCount(vs) == Len(SelectSeq(vs, LAMBDA v : v.attended))

\* lines 118 and 195: the reduce over the visits
RECURSIVE AttendedAmount(_)
AttendedAmount(vs) ==
    IF vs = <<>> THEN 0
    ELSE AttendedAmount(SubSeq(vs, 1, Len(vs) - 1))
         + (IF vs[Len(vs)].attended THEN vs[Len(vs)].rate ELSE 0)

\* lines 121-135
NewInvoice(id, pid, ratePerVisit, visitsInRange) ==
    [id |-> id, patientId |-> pid, ratePerVisit |-> ratePerVisit,
     visits |-> visitsInRange, totalVisits |-> Len(visitsInRange),
     attendedVisits |-> AttendedCount(visitsInRange),
     missedVisits |-> Len(visitsInRange) - AttendedCount(visitsInRange),
     totalAmount |-> AttendedAmount(visitsInRange)]

\* what the handlers of the invoices page leave alone
InvoiceFrame ==
    UNCHANGED <<frequency, visitsPerPeriod, startDate, timeSlots, endDate,
                occurrences, periodCount, dayCount, weekOffset, monthOffset,
                dates, result, pc, repeatVars, caller, patientId, apiResponse,
                visitsStore, patientsStore, legacyVars, pageVars, hookVars>>

\* lines 66-162 with createInvoice (part_011 lines 13-18, 49-58); written
\* is whether the storage write succeeds
CreateInvoice(selectedPatientId, startDay, endDay, ratePerVisit) ==
    LET formErrors == InvoiceFormErrors(selectedPatientId, startDay, endDay,
                                        ratePerVisit)
    IN  IF formErrors # {}
        THEN /\ errors' = formErrors
             /\ UNCHANGED invoiceVars
        ELSE IF selectedPatientId[1] \notin PagePatients
        THEN /\ errors' = {"submit"}
             /\ UNCHANGED invoiceVars
        ELSE LET visitsInRange ==
                     SortByDate(CollectInRange(1, selectedPatientId[1],
                                    startDay[1], endDay[1], ratePerVisit))
                 newInvoice == NewInvoice(Len(invoicesStore) + 1,
                                   selectedPatientId[1], ratePerVisit,
                                   visitsInRange)
             IN  IF Len(visitsInRange) = 0
                 THEN /\ errors' = {"submit"}
                      /\ UNCHANGED invoiceVars
                 ELSE \E written \in BOOLEAN :
                         IF written
                         THEN /\ invoicesStore' =
                                    invoicesStorageAdd(invoicesStore,
                                                       newInvoice)
                              /\ invoicesCache' = invoicesStore'
                              /\ errors' = {}
                         ELSE /\ errors' = {"submit"}
                              /\ UNCHANGED invoiceVars

handleCreateInvoice ==
    /\ Len(invoicesStore) < MaxInvoices
    /\ \E selectedPatientId \in InvoicePatientIds, ratePerVisit \in Rates :
          \E startDay \in InvoiceDates, endDay \in InvoiceDates :
             CreateInvoice(selectedPatientId, startDay, endDay, ratePerVisit)
    /\ InvoiceFrame

\* line 190: updatedVisits[visitIndex].attended = !...; the array is a
\* copy but its elements are the objects of the cached invoice
ToggleInPlace(vs, visitIndex) ==
    [vs EXCEPT ![visitIndex].attended = ~vs[visitIndex].attended]

\* lines 185-217 with updateInvoice (part_011 lines 21-32, 60-69), called
\* from the button of a listed visit (line 430)
handleToggleVisitAttendance ==
    /\ \E k \in 1 .. Len(invoicesCache) :
          \E visitIndex \in 1 .. Len(invoicesCache[k].visits) :
             LET invoice == invoicesCache[k]
                 updatedVisits == ToggleInPlace(invoice.visits, visitIndex)
                 updatedInvoice ==
                     [invoice EXCEPT
                        !.visits = updatedVisits,
                        !.attendedVisits = AttendedCount(updatedVisits),
                        !.missedVisits = Len(updatedVisits)
                                         - AttendedCount(updatedVisits),
                        !.totalAmount = AttendedAmount(updatedVisits)]
             IN  \E written \in BOOLEAN :
                    IF written
                    THEN /\ invoicesStore' =
                               invoicesStorageUpdate(invoicesStore,
                                                     invoice.id,
                                                     updatedInvoice)
                         /\ invoicesCache' = invoicesStore'
                    ELSE /\ invoicesCache' =
                               [invoicesCache EXCEPT
                                  ![k].visits = updatedVisits]
                         /\ UNCHANGED invoicesStore
    /\ UNCHANGED errors
    /\ InvoiceFrame

InvoiceInit == PageInit

InvoiceNext == handleCreateInvoice \/ handleToggleVisitAttendance

InvoiceSpec == InvoiceInit /\ [][InvoiceNext]_vars

\* C27: for every invoice the invoices page shows, attendedVisits +
\* missedVisits = totalVisits = the number of its visits, and totalAmount
\* is the sum of rate over its visits marked attended.
C27_TotalsMatchVisits ==
    \A k \in 1 .. Len(invoicesCache) :
       LET invoice == invoicesCache[k]
       IN  /\ invoice.attendedVisits + invoice.missedVisits
                 = invoice.totalVisits
           /\ invoice.totalVisits = Len(invoice.visits)
           /\ invoice.totalAmount = AttendedAmount(invoice.visits)

---------------------------------------------------------------------------
(* One useVisits instance (src/hooks/useVisits.ts) over visitsStorage      *)
(* (usePatientsQuery.ts lines 246-292), with other tabs writing the same   *)
(* localStorage key.  A visit is [id, visitorId]; the id of a visit that   *)
(* is added is new, as the ids made at add.tsx line 223 are (a time stamp  *)
(* and a random suffix).  A write by another tab dispatches one storage    *)
(* event to this tab once its listener is registered.                      *)

MaxStoredVisits == 2
MaxPendingEvents == 2

HookVisitIds == 1 .. 3
HookVisitorIds == { "t1", "t2" }

HookVisit(id, visitorId) == [id |-> id, visitorId |-> visitorId]

\* the ids held by a list of visits
IdsOf(list) == { list[i].id : i \in 1 .. Len(list) }

\* usePatientsQuery.ts lines 189-206: setItem returns whether the write
\* succeeded; a failed write leaves the stored value as it was
setItem(old, value, written) ==
    IF written THEN [ok |-> TRUE, store |-> value]
    ELSE [ok |-> FALSE, store |-> old]

\* lines 261-265: visitsStorage.add
visitsStorageAdd(store, visit, written) ==
    setItem(store, Append(store, visit), written)

\* mutant of visitsStorageUpdate: the index test left out
visitsStorageUpdate_NoIndexTest(store, id, updates, written) ==
    setItem(store,
            [i \in 1 .. Len(store) |->
                IF store[i].id = id
                THEN [store[i] EXCEPT !.visitorId = updates.visitorId]
                ELSE store[i]],
            written)

\* lines 267-275: visitsStorage.update; ids are unique, so the first index
\* holding the id is the only one
visitsStorageUpdate(store, id, updates, written) ==
    IF id \notin IdsOf(store) THEN [ok |-> FALSE, store |-> store]
    ELSE setItem(store,
                 [i \in 1 .. Len(store) |->
                     IF store[i].id = id
                     THEN [store[i] EXCEPT !.visitorId = updates.visitorId]
                     ELSE store[i]],
                 written)

\* lines 277-281: visitsStorage.delete
visitsStorageDelete(store, id, written) ==
    setItem(store, SelectSeq(store, LAMBDA v : v.id # id), written)

\* what the hook and the other tabs leave alone
HookFrame ==
    UNCHANGED <<frequency, visitsPerPeriod, startDate, timeSlots, endDate,
                occurrences, periodCount, dayCount, weekOffset, monthOffset,
                dates, result, pc, repeatVars, caller, patientId, apiResponse,
                errors, patientsStore, legacyVars, pageVars, invoiceVars>>

\* the outcome of a hook operation or of a handled storage event, with the
\* state it was called in
Outcome(op, returned, failed) ==
    Some([op |-> op, returned |-> returned, failed |-> failed,
          visitsBefore |-> visits, storeBefore |-> visitsStore])

\* useVisits.ts lines 20-29: the effect loads the visits and registers the
\* storage listener
useEffect ==
    /\ ~mounted
    /\ mounted' = TRUE
    /\ visits' = visitsStore
    /\ UNCHANGED <<visitsStore, pendingEvents, lastCall>>
    /\ HookFrame

\* useVisits.ts lines 24-28 with loadVisits (lines 9-18)
handleStorageChange ==
    /\ mounted
    /\ pendingEvents > 0
    /\ pendingEvents' = pendingEvents - 1
    /\ visits' = visitsStore
    /\ lastCall' = Outcome("storage", TRUE, FALSE)
    /\ UNCHANGED <<visitsStore, mounted>>
    /\ HookFrame

\* useVisits.ts lines 36-42
addVisit ==
    /\ mounted
    /\ Len(visitsStore) < MaxStoredVisits
    /\ \E id \in HookVisitIds \ (IdsOf(visitsStore) \cup IdsOf(visits)) :
          \E visitorId \in HookVisitorIds, written \in BOOLEAN :
             LET visit == HookVisit(id, visitorId)
                 added == visitsStorageAdd(visitsStore, visit, written)
             IN  /\ visitsStore' = added.store
                 /\ visits' = IF added.ok THEN Append(visits, visit)
                              ELSE visits
                 /\ lastCall' = Outcome("add", added.ok, ~written)
    /\ UNCHANGED <<mounted, pendingEvents>>
    /\ HookFrame

\* useVisits.ts lines 44-50
updateVisit ==
    /\ mounted
    /\ \E id \in HookVisitIds, visitorId \in HookVisitorIds :
          \E written \in BOOLEAN :
             LET updates == [visitorId |-> visitorId]
                 updated == visitsStorageUpdate(visitsStore, id, updates,
                                                written)
             IN  /\ visitsStore' = updated.store
                 /\ visits' =
                       IF updated.ok
                       THEN [i \in 1 .. Len(visits) |->
                               IF visits[i].id = id
                               THEN [visits[i] EXCEPT
                                       !.visitorId = updates.visitorId]
                               ELSE visits[i]]
                       ELSE visits
                 /\ lastCall' = Outcome("update", updated.ok,
                                   ~written \/ id \notin IdsOf(visitsStore))
    /\ UNCHANGED <<mounted, pendingEvents>>
    /\ HookFrame

\* useVisits.ts lines 52-58
deleteVisit ==
    /\ mounted
    /\ \E id \in HookVisitIds, written \in BOOLEAN :
          LET deleted == visitsStorageDelete(visitsStore, id, written)
          IN  /\ visitsStore' = deleted.store
              /\ visits' = IF deleted.ok
                           THEN SelectSeq(visits, LAMBDA v : v.id # id)
                           ELSE visits
              /\ lastCall' = Outcome("delete", deleted.ok, ~written)
    /\ UNCHANGED <<mounted, pendingEvents>>
    /\ HookFrame

\* another tab's write has changed the stored value
OtherTabWrote(store) ==
    /\ visitsStore' = store
    /\ pendingEvents' = IF mounted THEN pendingEvents + 1 ELSE pendingEvents
    /\ lastCall' = None
    /\ UNCHANGED <<visits, mounted>>
    /\ HookFrame

\* usePatientsQuery.ts lines 261-281 run in another tab: a visit added,
\* changed or deleted there
OtherTabWrite ==
    /\ pendingEvents < MaxPendingEvents
    /\ \/ /\ Len(visitsStore) < MaxStoredVisits
          /\ \E id \in HookVisitIds \ (IdsOf(visitsStore) \cup IdsOf(visits)) :
                \E visitorId \in HookVisitorIds :
                   OtherTabWrote(visitsStorageAdd(visitsStore,
                                     HookVisit(id, visitorId), TRUE).store)
       \/ \E i \in 1 .. Len(visitsStore), visitorId \in HookVisitorIds :
             /\ visitsStore[i].visitorId # visitorId
             /\ OtherTabWrote(visitsStorageUpdate(visitsStore,
                                  visitsStore[i].id,
                                  [visitorId |-> visitorId], TRUE).store)
       \/ \E i \in 1 .. Len(visitsStore) :
             OtherTabWrote(visitsStorageDelete(visitsStore,
                               visitsStore[i].id, TRUE).store)

HookInit ==
    /\ GeneratorIdle
    /\ visitsStore \in { <<>>, << HookVisit(1, "t1") >> }
    /\ LegacyIdle
    /\ PageIdle
    /\ InvoicesIdle
    /\ HookIdle

HookNext ==
    \/ useEffect
    \/ handleStorageChange
    \/ addVisit
    \/ updateVisit
    \/ deleteVisit
    \/ OtherTabWrite

HookSpec == HookInit /\ [][HookNext]_vars

C28_UnknownIdRefused ==
    /\ lastCall # None
    /\ lastCall[1].op = "update"
    /\ lastCall[1].failed
    /\ ~lastCall[1].returned

====
